---- MODULE Spec2Model ----
(***************************************************************************)
(* mdview: the self-contained rendering and archiving subsystem.           *)
(*                                                                         *)
(*   - archive graph builder   BuildGraph, Graph.AddNode                   *)
(*   - archive packager        ArchiveConverter.ConvertToArchive           *)
(*   - asset resolver          pathRenderer.processLinkPath/ImagePath      *)
(*   - preload cache           ImageCache.PreloadDirectory                 *)
(*   - navigation runtime      navigation.js                               *)
(*                                                                         *)
(* Strings are sequences of tokens: a token is a file or directory name, a *)
(* path separator ("/" or "\\"), or a literal piece such as "file:///".    *)
(***************************************************************************)
EXTENDS Integers, Sequences, FiniteSets, TLC

VARIABLES
    \* ---- host and filesystem (inputs)
    sep,            \* os.PathSeparator of the host: "/" or "\\"
    fsLinks,        \* document -> the link targets its content holds
    fsStatus,       \* document -> "ok" | "missing" | "unreadable"
    maxPages,       \* BuildGraph's maxPages argument
    \* ---- BuildGraph
    pc,             \* position in BuildGraph: "idle","loop","done","error"
    graph,          \* *Graph: [Root, Nodes, Count]
    queue,          \* []queueItem
    visited,        \* map[string]bool, as the set of keys mapped to true
    warnings,       \* what BuildGraph has printed to stderr
    hist,           \* per path: how often it was enqueued, dequeued, added, linked
    \* ---- Converter with its ImageCache (inputs)
    selfContained,  \* Converter.selfContained
    preload,        \* Converter.preload
    doc,            \* the image destinations of the document, in order
    otherDir,       \* the directory a second goroutine asks to preload, or <<>>
    \* ---- rendering thread and goroutines
    gor,            \* goroutine -> [pc, dir, ret]: position in PreloadDirectory
    ridx,           \* images the rendering thread has emitted
    rendered,       \* the src values emitted so far
    hits,           \* which of them were served from the cache
    \* ---- ImageCache
    data,           \* ImageCache.data: path -> bytes
    preloadedDirs,  \* ImageCache.preloadedDirs, as the set of its keys
    preloadingDirs, \* ImageCache.preloadingDirs: dir -> *sync.WaitGroup
    tasks,          \* background preload goroutines: [dir, pc, pending]
    wgDone,         \* the WaitGroups whose Done has run
    reads,          \* the os.ReadFile calls made so far: <<caller, path>>
    \* ---- ArchiveConverter.ConvertToArchive
    archPc,         \* "idle" | "converting" | "written" | "failed" | "writeFailed"
    archiveData,    \* archiveData: relative path -> encoded page
    converted,      \* the nodes the loop has been through
    outFile,        \* the destination file: <<>> or <<its contents>>
    \* ---- navigation runtime
    mdviewArchive,      \* window.mdviewArchive: [pages, root]
    mdviewHistory,      \* window.mdviewHistory
    mdviewCurrentPage,  \* window.mdviewCurrentPage
    overlayVisible,     \* the overlay has the class "visible"
    overlayBody,        \* the content of the overlay's body
    navLast,            \* what the last click did
    \* ---- one call of a path resolver
    call,               \* the pathRenderer's fields and the destination
    result              \* <<>> or <<what the call returned>>

graphVars == <<fsLinks, fsStatus, maxPages, pc, graph, queue, visited, warnings, hist>>

cacheVars == <<selfContained, preload, doc, otherDir, gor, ridx, rendered, hits,
               data, preloadedDirs, preloadingDirs, tasks, wgDone, reads>>

archVars == <<archPc, archiveData, converted, outFile>>

navVars == <<mdviewArchive, mdviewHistory, mdviewCurrentPage, overlayVisible,
             overlayBody, navLast>>

resolveVars == <<call, result>>

vars == <<sep, graphVars, cacheVars, archVars, navVars, resolveVars>>

----------------------------------------------------------------------------
(* Bounds *)

\* at most this many links in the whole document set
MaxEdges == 3
\* maxPages is drawn from 0..MaxPagesBound
MaxPagesBound == 4
\* at most this many documents are missing or unreadable
MaxFaults == 1

----------------------------------------------------------------------------
(* Token strings and path/filepath *)

RECURSIVE Flatten(_)
Flatten(ss) == IF ss = <<>> THEN <<>> ELSE Head(ss) \o Flatten(Tail(ss))

Last(s) == s[Len(s)]
Front(s) == SubSeq(s, 1, Len(s) - 1)

\* os.IsPathSeparator: Windows accepts both slashes
IsPathSeparator(t, os) == IF os = "\\" THEN t \in {"/", "\\"} ELSE t = "/"

\* filepath.VolumeName, as a token count: a drive such as "C:" on Windows only
VolumeNameLen(s, os) == IF os = "\\" /\ Len(s) > 0 /\ s[1] = "C:" THEN 1 ELSE 0

\* the elements of a path between separators, empty ones dropped
RECURSIVE SplitSegs(_, _, _)
SplitSegs(s, cur, os) ==
    IF s = <<>> THEN (IF cur = <<>> THEN <<>> ELSE <<cur>>)
    ELSE IF IsPathSeparator(Head(s), os)
         THEN (IF cur = <<>> THEN <<>> ELSE <<cur>>) \o SplitSegs(Tail(s), <<>>, os)
         ELSE SplitSegs(Tail(s), Append(cur, Head(s)), os)

\* a path string taken apart: volume, whether rooted, elements
ParsePath(s, os) ==
    LET v == VolumeNameLen(s, os)
        rest == SubSeq(s, v + 1, Len(s))
    IN [vol |-> SubSeq(s, 1, v),
        rooted |-> Len(rest) > 0 /\ IsPathSeparator(rest[1], os),
        segs |-> SplitSegs(rest, <<>>, os)]

\* filepath.Clean on the elements: "." dropped, ".." removes the element before it
RECURSIVE CleanSegs(_, _, _)
CleanSegs(segs, out, rooted) ==
    IF segs = <<>> THEN out
    ELSE LET e == Head(segs) IN
         IF e = <<".">> THEN CleanSegs(Tail(segs), out, rooted)
         ELSE IF e = <<"..">>
              THEN IF out # <<>> /\ Last(out) # <<"..">>
                   THEN CleanSegs(Tail(segs), Front(out), rooted)
                   ELSE IF rooted THEN CleanSegs(Tail(segs), out, rooted)
                        ELSE CleanSegs(Tail(segs), Append(out, e), rooted)
              ELSE CleanSegs(Tail(segs), Append(out, e), rooted)

RECURSIVE JoinSegs(_, _)
JoinSegs(segs, os) ==
    IF segs = <<>> THEN <<>>
    ELSE IF Len(segs) = 1 THEN Head(segs)
    ELSE Head(segs) \o <<os>> \o JoinSegs(Tail(segs), os)

\* the path string of a cleaned path
PathString(p, os) ==
    LET body == JoinSegs(p.segs, os) IN
    IF p.rooted THEN p.vol \o <<os>> \o body
    ELSE IF p.vol = <<>> /\ body = <<>> THEN <<".">>
    ELSE p.vol \o body

\* filepath.Clean
Clean(s, os) ==
    LET p == ParsePath(s, os) IN
    PathString([p EXCEPT !.segs = CleanSegs(p.segs, <<>>, p.rooted)], os)

\* filepath.Join(a, b): both joined with the separator, then cleaned
Join(a, b, os) ==
    IF a = <<>> THEN (IF b = <<>> THEN <<>> ELSE Clean(b, os))
    ELSE IF b = <<>> THEN Clean(a, os)
    ELSE Clean(a \o <<os>> \o b, os)

\* filepath.Dir
Dir(s, os) ==
    LET p == ParsePath(s, os)
        n == Len(s)
        lastIsSep == n > 0 /\ IsPathSeparator(s[n], os)
        kept == IF lastIsSep \/ p.segs = <<>> THEN p.segs ELSE Front(p.segs)
    IN PathString([p EXCEPT !.segs = CleanSegs(kept, <<>>, p.rooted)], os)

\* filepath.Base
Base(s, os) ==
    LET p == ParsePath(s, os) IN
    IF p.segs = <<>> THEN (IF p.rooted THEN <<os>> ELSE <<".">>) ELSE Last(p.segs)

RECURSIVE CommonLen(_, _)
CommonLen(a, b) ==
    IF a = <<>> \/ b = <<>> \/ Head(a) # Head(b) THEN 0
    ELSE 1 + CommonLen(Tail(a), Tail(b))

\* filepath.Rel(basepath, targpath): [err, path]
Rel(basepath, targpath, os) ==
    LET b0 == ParsePath(basepath, os)
        t0 == ParsePath(targpath, os)
        b == CleanSegs(b0.segs, <<>>, b0.rooted)
        t == CleanSegs(t0.segs, <<>>, t0.rooted)
        k == CommonLen(b, t)
        ups == [i \in 1..(Len(b) - k) |-> <<"..">>]
        rest == SubSeq(t, k + 1, Len(t))
    IN IF b0.rooted # t0.rooted \/ b0.vol # t0.vol
       THEN [err |-> TRUE, path |-> <<>>]
       ELSE IF k < Len(b) /\ b[k + 1] = <<"..">>
       THEN [err |-> TRUE, path |-> <<>>]
       ELSE IF ups \o rest = <<>>
       THEN [err |-> FALSE, path |-> <<".">>]
       ELSE [err |-> FALSE, path |-> JoinSegs(ups \o rest, os)]

\* strings.ReplaceAll(s, old, new) for one-token old and new
ReplaceAll(s, old, new) == [i \in 1..Len(s) |-> IF s[i] = old THEN new ELSE s[i]]

----------------------------------------------------------------------------
(* The document set *)

\* the volume of an absolute path on the host
\* the host separators
Separators == {"/", "\\"}

HostVolume(os) == IF os = "\\" THEN <<"C:">> ELSE <<>>

\* documents, by the elements of their absolute path: the root, a sibling,
\* one in a subdirectory, one outside the root's directory
RootDoc == <<"r", "root.md">>
Docs == {RootDoc, <<"r", "a.md">>, <<"r", "sub", "b.md">>, <<"x", "c.md">>}

\* the absolute path string of a document on the host
AbsPathOn == [os \in Separators |->
                 [d \in Docs |->
                     PathString([vol |-> HostVolume(os), rooted |-> TRUE,
                                 segs |-> [i \in 1..Len(d) |-> <<d[i]>>]], os)]]
AbsPath(d, os) == AbsPathOn[os][d]

Paths(os) == {AbsPath(d, os) : d \in Docs}
DocOfOn == [os \in Separators |->
               [p \in Paths(os) |-> CHOOSE d \in Docs : AbsPath(d, os) = p]]
DocOf(p, os) == DocOfOn[os][p]

----------------------------------------------------------------------------
(* The asset files (converter/converter.go) *)

\* requests made to one converter: the image references of its document and
\* the PreloadDirectory call of a second goroutine
MaxRequests == 2

\* image destinations as they are written in a document; a file name is its
\* stem followed by its extension
ImgX == <<"img", "/", "x", ".png">>
ImgU == <<"img", "/", "u", ".png">>
ImgGone == <<"img", "/", "gone", ".png">>
ImgN == <<"img", "/", "n", ".txt">>
PicY == <<"pic", "/", "y", ".png">>
PicZ == <<"pic", "/", "z", ".PNG">>
Remote == <<"https://", "h", "/", "x", ".png">>
Dests == {ImgX, ImgU, ImgGone, ImgN, PicZ, Remote}

\* pathRenderer.baseDir: the directory of the document
BaseDir(os) == HostVolume(os) \o <<os, "r">>

\* the files on disk, their bytes, and the one whose read fails part way
FilesOn == [os \in Separators |->
               {Join(BaseDir(os), d, os) : d \in {ImgX, ImgU, ImgN, PicY, PicZ}}]
OnDisk(os) == FilesOn[os]
BytesOn == [os \in Separators |->
               [p \in FilesOn[os] |->
                   IF p = Join(BaseDir(os), ImgX, os) THEN "X"
                   ELSE IF p = Join(BaseDir(os), ImgU, os) THEN "U"
                   ELSE IF p = Join(BaseDir(os), ImgN, os) THEN "N"
                   ELSE IF p = Join(BaseDir(os), PicY, os) THEN "Y"
                   ELSE "Z"]]
Content(p, os) == BytesOn[os][p]
UnreadableOn == [os \in Separators |-> {Join(BaseDir(os), ImgU, os)}]
Unreadable(os) == UnreadableOn[os]

\* a nil []byte, as opposed to an empty one
Nil == "<nil>"

\* os.ReadFile: nil when the file cannot be opened, what was read so far
\* (nothing, here) when reading fails
ReadFile(p, os) ==
    IF p \notin OnDisk(os) THEN [err |-> TRUE, data |-> Nil]
    ELSE IF p \in Unreadable(os) THEN [err |-> TRUE, data |-> ""]
    ELSE [err |-> FALSE, data |-> Content(p, os)]

\* os.ReadDir, without the subdirectories (entry.IsDir() is skipped)
FileDirOn == [os \in Separators |-> [p \in FilesOn[os] |-> Dir(p, os)]]
ReadDir(dir, os) ==
    LET files == {p \in OnDisk(os) : FileDirOn[os][p] = dir}
    IN [err |-> files = {} /\ dir # BaseDir(os), entries |-> files]

\* base64.StdEncoding.EncodeToString of the byte strings that occur
EncodeToString(bytes) ==
    CASE bytes = "" -> ""
      [] bytes = "X" -> "WA=="
      [] bytes = "U" -> "VQ=="
      [] bytes = "N" -> "Tg=="
      [] bytes = "Y" -> "WQ=="
      [] bytes = "Z" -> "Wg=="

\* strings.ToLower(filepath.Ext(path))
ToLower(t) == IF t = ".PNG" THEN ".png" ELSE t
Ext(path) ==
    IF Len(path) > 0 /\ Last(path) \in {".png", ".PNG", ".txt", ".md"}
    THEN Last(path) ELSE ""

getMimeTypeFromExtension(path) ==
    IF ToLower(Ext(path)) = ".png" THEN "image/png" ELSE ""

HasPrefix(s, t) == Len(s) > 0 /\ s[1] = t
Contains(s, T) == \E i \in 1..Len(s) : s[i] \in T
SchemeTokens == {"http://", "https://", "file:///", "ftp://"}

\* the pieces of text that begin with "javascript:"
JavascriptTokens == {"javascript:", "javascript:mdviewLoadPage('"}

\* strings.HasPrefix(s, "javascript:")
HasPrefixJavascript(s) == Len(s) > 0 /\ s[1] \in JavascriptTokens

----------------------------------------------------------------------------
(* The parts of the state a specification does not use stay as they are here *)

IdleCache ==
    /\ selfContained = FALSE
    /\ preload = FALSE
    /\ doc = <<>>
    /\ otherDir = <<>>
    /\ gor = <<>>
    /\ ridx = 0
    /\ rendered = <<>>
    /\ hits = {}
    /\ data = <<>>
    /\ preloadedDirs = {}
    /\ preloadingDirs = <<>>
    /\ tasks = <<>>
    /\ wgDone = {}
    /\ reads = {}

IdleArchive ==
    /\ archPc = "idle"
    /\ archiveData = <<>>
    /\ converted = {}
    /\ outFile = <<>>

IdleNav ==
    /\ mdviewArchive = <<>>
    /\ mdviewHistory = <<>>
    /\ mdviewCurrentPage = <<>>
    /\ overlayVisible = FALSE
    /\ overlayBody = <<>>
    /\ navLast = "none"

IdleResolve ==
    /\ call = <<>>
    /\ result = <<>>

IdleGraph ==
    /\ fsLinks = <<>>
    /\ fsStatus = <<>>
    /\ maxPages = 0
    /\ pc = "off"
    /\ graph = [Root |-> <<>>, Nodes |-> <<>>, Count |-> -1]
    /\ queue = <<>>
    /\ visited = {}
    /\ warnings = <<>>
    /\ hist = <<>>

----------------------------------------------------------------------------
(* Graph (archive/graph.go) *)

NilGraph == [Root |-> <<>>, Nodes |-> <<>>, Count |-> -1]

NewGraph(rootPath) == [Root |-> rootPath, Nodes |-> <<>>, Count |-> 0]

\* Graph.AddNode without the exists check: the node is replaced and counted again
AddNodeNoExistsCheck(g, path, relativePath, depth) ==
    [g EXCEPT !.Nodes = (path :> [Path |-> path, RelativePath |-> relativePath,
                                  Links |-> <<>>, Depth |-> depth])
                        @@ [q \in DOMAIN g.Nodes \ {path} |-> g.Nodes[q]],
              !.Count = @ + 1]

\* Graph.AddNode: the graph after the call; the node returned is Nodes[path]
AddNode(g, path, relativePath, depth) ==
    IF path \in DOMAIN g.Nodes THEN g
    ELSE [g EXCEPT !.Nodes = (path :> [Path |-> path, RelativePath |-> relativePath,
                                       Links |-> <<>>, Depth |-> depth]) @@ @,
                   !.Count = @ + 1]

HasNode(g, path) == path \in DOMAIN g.Nodes

----------------------------------------------------------------------------
(* BuildGraph *)

\* os.Stat finds every file
StatAlwaysFinds(path) == FALSE

\* os.Stat(path) reports that the file does not exist
StatNotExist(path) == fsStatus[DocOf(path, sep)] = "missing"

\* os.ReadFile(path) fails
ReadFails(path) == fsStatus[DocOf(path, sep)] # "ok"

\* the orders in which a document's content can list a set of link targets
Orders(S) ==
    {s \in [1..Cardinality(S) -> S] : \A i, j \in 1..Cardinality(S) : i # j => s[i] # s[j]}

\* ScanMarkdownLinks(content, baseDir) for the document at path: the
\* deduplicated absolute paths of its local markdown links, in content order
ScanResults(path) ==
    Orders({AbsPath(d, sep) : d \in fsLinks[DocOf(path, sep)]})

Bump(h, path, field) == [h EXCEPT ![path][field] = @ + 1]

\* a slip that leaves the link unmarked
MarkVisitedForgotten(vis, link) == vis

\* visited[link] = true
MarkVisited(vis, link) == vis \cup {link}

\* a slip that enqueues a link at its parent's depth
ChildDepthOfParent(currentDepth) == currentDepth

\* depth: currentDepth + 1
ChildDepth(currentDepth) == currentDepth + 1

\* a slip that turns the queue into a stack
EnqueueFront(q, item) == <<item>> \o q

\* queue = append(queue, item)
Enqueue(q, item) == Append(q, item)

\* the "Add unvisited links to queue" loop over links[i..]
RECURSIVE EnqueueLinks(_, _, _, _, _)
EnqueueLinks(links, st, from, depth, room) ==
    IF links = <<>> THEN st
    ELSE LET link == Head(links) IN
         IF link \notin st.visited /\ room
         THEN IF StatNotExist(link)
              THEN EnqueueLinks(Tail(links),
                       [st EXCEPT !.warnings.missing = @ \cup {<<from, link>>}],
                       from, depth, room)
              ELSE EnqueueLinks(Tail(links),
                       [st EXCEPT !.visited = MarkVisited(@, link),
                                  !.queue = Enqueue(@, [path |-> link,
                                                        depth |-> ChildDepth(depth)]),
                                  !.hist = Bump(@, link, "enq")],
                       from, depth, room)
         ELSE EnqueueLinks(Tail(links), st, from, depth, room)

NoWarnings == [read |-> {}, missing |-> {}, truncated |-> FALSE, excluded |-> 0]

\* the root file does not exist: return nil and an error
BuildGraphRootMissing ==
    /\ pc = "idle"
    /\ StatNotExist(AbsPath(RootDoc, sep))
    /\ pc' = "error"
    /\ UNCHANGED <<sep, fsLinks, fsStatus, maxPages, graph, queue, visited, warnings, hist>>
    /\ UNCHANGED <<cacheVars, archVars, navVars, resolveVars>>

\* create the graph, the queue holding the root and the visited set
BuildGraphStart ==
    /\ pc = "idle"
    /\ ~StatNotExist(AbsPath(RootDoc, sep))
    /\ LET rootPath == AbsPath(RootDoc, sep) IN
       /\ graph' = NewGraph(rootPath)
       /\ queue' = <<[path |-> rootPath, depth |-> 0]>>
       /\ visited' = {rootPath}
       /\ hist' = Bump(hist, rootPath, "enq")
    /\ pc' = "loop"
    /\ UNCHANGED <<sep, fsLinks, fsStatus, maxPages, warnings>>
    /\ UNCHANGED <<cacheVars, archVars, navVars, resolveVars>>

LoopCondition == Len(queue) > 0 /\ graph.Count < maxPages

\* one iteration whose ReadFile fails: warn and continue
ProcessUnreadable ==
    /\ pc = "loop" /\ LoopCondition
    /\ LET item == Head(queue) IN
       /\ ReadFails(item.path)
       /\ queue' = Tail(queue)
       /\ warnings' = [warnings EXCEPT !.read = @ \cup {item.path}]
       /\ hist' = Bump(hist, item.path, "deq")
    /\ UNCHANGED <<sep, fsLinks, fsStatus, maxPages, pc, graph, visited>>
    /\ UNCHANGED <<cacheVars, archVars, navVars, resolveVars>>

\* a slip that records only the links that are new to the traversal
RecordedLinksUnvisitedOnly(links, vis) ==
    SelectSeq(links, LAMBDA l : l \notin vis)

\* node.Links = links: every scanned link is recorded
RecordedLinks(links, vis) == links

\* one iteration: dequeue, read, add the node, scan, set Links, enqueue
ProcessItem ==
    /\ pc = "loop" /\ LoopCondition
    /\ LET item == Head(queue)
           currentPath == item.path
           currentDepth == item.depth
           rootDir == Dir(graph.Root, sep)
           rel == Rel(rootDir, currentPath, sep)
           relPath == IF rel.err THEN currentPath ELSE rel.path
           g1 == AddNode(graph, currentPath, relPath, currentDepth)
       IN
       /\ ~ReadFails(currentPath)
       /\ \E links \in ScanResults(currentPath) :
            LET g2 == [g1 EXCEPT !.Nodes[currentPath].Links = RecordedLinks(links, visited)]
                h1 == Bump(Bump(hist, currentPath, "deq"), currentPath, "set")
                h2 == IF HasNode(graph, currentPath) THEN h1 ELSE Bump(h1, currentPath, "add")
                st == EnqueueLinks(links,
                          [queue |-> Tail(queue), visited |-> visited,
                           warnings |-> warnings, hist |-> h2],
                          currentPath, currentDepth, g2.Count < maxPages)
            IN /\ graph' = g2
               /\ queue' = st.queue
               /\ visited' = st.visited
               /\ warnings' = st.warnings
               /\ hist' = st.hist
    /\ UNCHANGED <<sep, fsLinks, fsStatus, maxPages, pc>>
    /\ UNCHANGED <<cacheVars, archVars, navVars, resolveVars>>

\* the loop has ended: warn if the queue is not empty, return the graph
BuildGraphReturn ==
    /\ pc = "loop" /\ ~LoopCondition
    /\ warnings' = IF Len(queue) > 0
                   THEN [warnings EXCEPT !.truncated = TRUE, !.excluded = Len(queue)]
                   ELSE warnings
    /\ pc' = "done"
    /\ UNCHANGED <<sep, fsLinks, fsStatus, maxPages, graph, queue, visited, hist>>
    /\ UNCHANGED <<cacheVars, archVars, navVars, resolveVars>>

EdgeCount(l) ==
    Cardinality({e \in Docs \X Docs : e[2] \in l[e[1]]})

\* the documents a chain of links leads to from the documents in S
RECURSIVE LinkClosure(_, _)
LinkClosure(l, S) ==
    LET T == S \cup UNION {l[d] : d \in S} IN
    IF T = S THEN S ELSE LinkClosure(l, T)

\* The filesystem: BuildGraph reads nothing but the root and what links lead
\* to, so the documents no chain of links reaches have no links and no fault.
InitGraph ==
    /\ sep \in {"/", "\\"}
    /\ fsLinks \in {l \in [Docs -> SUBSET Docs] :
                        /\ EdgeCount(l) <= MaxEdges
                        /\ \A d \in Docs \ LinkClosure(l, {RootDoc}) : l[d] = {}}
    /\ fsStatus \in {s \in [Docs -> {"ok", "missing", "unreadable"}] :
                        /\ Cardinality({d \in Docs : s[d] # "ok"}) <= MaxFaults
                        /\ \A d \in Docs \ LinkClosure(fsLinks, {RootDoc}) : s[d] = "ok"}
    /\ maxPages \in 0..MaxPagesBound
    /\ pc = "idle"
    /\ graph = NilGraph
    /\ queue = <<>>
    /\ visited = {}
    /\ warnings = NoWarnings
    /\ hist = [p \in Paths(sep) |-> [enq |-> 0, deq |-> 0, add |-> 0, set |-> 0]]
    /\ IdleCache
    /\ IdleArchive
    /\ IdleNav
    /\ IdleResolve

NextGraph ==
    \/ BuildGraphRootMissing
    \/ BuildGraphStart
    \/ ProcessUnreadable
    \/ ProcessItem
    \/ BuildGraphReturn

SpecGraph == InitGraph /\ [][NextGraph]_vars

----------------------------------------------------------------------------
(* What the filesystem holds, for stating the claims about BuildGraph *)

Range(f) == {f[x] : x \in DOMAIN f}

\* the documents a document links to that exist and can be read
OkSucc == [d \in Docs |-> IF fsStatus[d] = "ok"
                          THEN {t \in fsLinks[d] : fsStatus[t] = "ok"} ELSE {}]

\* the documents BuildGraph could add without a limit: chains of readable documents
ReachableDocs ==
    IF fsStatus[RootDoc] = "ok" THEN LinkClosure(OkSucc, {RootDoc}) ELSE {}

\* breadth-first levels: node -> distance from the frontier's level n
RECURSIVE Distances(_, _, _, _)
Distances(succ, frontier, seen, n) ==
    IF frontier = {} THEN <<>>
    ELSE LET next == (UNION {succ[d] : d \in frontier}) \ seen IN
         [d \in frontier |-> n] @@ Distances(succ, next, seen \cup next, n + 1)

FsDist == Distances(OkSucc, {RootDoc}, {RootDoc}, 0)

NodePaths == DOMAIN graph.Nodes
NodeDocs == {DocOf(p, sep) : p \in NodePaths}

\* the links recorded in the graph that lead to a node of the graph
RecordedSucc == [p \in NodePaths |-> Range(graph.Nodes[p].Links) \cap NodePaths]
RecordedDist ==
    LET r == AbsPath(RootDoc, sep) IN
    IF r \in NodePaths THEN Distances(RecordedSucc, {r}, {r}, 0) ELSE <<>>

----------------------------------------------------------------------------
(* Claims about BuildGraph *)

\* C3: during BuildGraph every absolute path is enqueued at most once and
\* dequeued and processed at most once; its node is created at most once and
\* its Links field is assigned at most once, cycles and shared targets included.
C3_AtMostOnce ==
    \A p \in Paths(sep) :
        /\ hist[p].enq <= 1
        /\ hist[p].deq <= 1
        /\ hist[p].add <= 1
        /\ hist[p].set <= 1

\* a finished traversal of a link cycle: a node other than the root links back to the root
C3_Witness ==
    /\ pc = "done"
    /\ graph.Count >= 2
    /\ \E p \in NodePaths \ {graph.Root} : graph.Root \in Range(graph.Nodes[p].Links)

\* C4: while BuildGraph runs and in the graph it returns, Count is the number
\* of paths in Nodes and is at most maxPages; AddNode with a path already
\* present returns the graph unchanged.
C4_CountInvariant ==
    pc \in {"loop", "done"} =>
        /\ graph.Count = Cardinality(NodePaths)
        /\ graph.Count <= maxPages
        /\ \A p \in NodePaths : \A depth \in 0..1 :
               AddNode(graph, p, <<"other.md">>, depth) = graph

\* the traversal stopped at the limit with several nodes
C4_Witness ==
    /\ pc = "done"
    /\ graph.Count = maxPages
    /\ graph.Count >= 2
    /\ Cardinality(ReachableDocs) > maxPages

\* C5: BuildGraph terminates, link cycles included: until it has returned it
\* can always take a step, and every step lowers a measure that is never
\* negative. When every document the links lead to exists and is readable and
\* they are at most maxPages, the nodes are exactly the root's link closure
\* and each node's Links holds every document it links to.
C5_ClosureResult ==
    (/\ pc = "done"
     /\ \A d \in LinkClosure(fsLinks, {RootDoc}) : fsStatus[d] = "ok"
     /\ Cardinality(LinkClosure(fsLinks, {RootDoc})) <= maxPages)
    => /\ NodeDocs = LinkClosure(fsLinks, {RootDoc})
       /\ graph.Count = Cardinality(LinkClosure(fsLinks, {RootDoc}))
       /\ \A p \in NodePaths :
              Range(graph.Nodes[p].Links) = {AbsPath(t, sep) : t \in fsLinks[DocOf(p, sep)]}

\* BuildGraph has returned, or the guard of one of its steps holds
C5_Progress ==
    \/ pc \in {"done", "error"}
    \/ pc = "idle" /\ StatNotExist(AbsPath(RootDoc, sep))
    \/ pc = "idle" /\ ~StatNotExist(AbsPath(RootDoc, sep))
    \/ pc = "loop" /\ LoopCondition /\ ReadFails(Head(queue).path)
    \/ pc = "loop" /\ LoopCondition /\ ~ReadFails(Head(queue).path)
                   /\ ScanResults(Head(queue).path) # {}
    \/ pc = "loop" /\ ~LoopCondition

\* what is left to do: the paths not yet visited (each can be enqueued once),
\* the items waiting in the queue, and the return
C5_Measure ==
    2 * Cardinality(Paths(sep) \ visited) + Len(queue)
      + (IF pc \in {"done", "error"} THEN 0 ELSE 1)

C5_TerminatesWithClosure ==
    /\ [](C5_Progress /\ C5_Measure >= 0 /\ C5_ClosureResult)
    /\ [][C5_Measure' < C5_Measure]_vars

\* a finished traversal of a cycle through three documents, all of them nodes
C5_Witness ==
    /\ pc = "done"
    /\ graph.Count = 3
    /\ Cardinality(LinkClosure(fsLinks, {RootDoc})) = 3
    /\ \E p \in NodePaths \ {graph.Root} : graph.Root \in Range(graph.Nodes[p].Links)
    /\ \A d \in Docs : fsStatus[d] = "ok"

\* C6: in the returned graph the root has depth 0 and every node's Depth is
\* the length of the shortest chain of recorded links from the root; a node's
\* Depth never changes once the node exists.
C6_DepthIsShortest ==
    pc = "done" =>
        /\ graph.Root \in NodePaths => graph.Nodes[graph.Root].Depth = 0
        /\ \A p \in NodePaths :
               /\ p \in DOMAIN RecordedDist
               /\ graph.Nodes[p].Depth = RecordedDist[p]

C6_DepthFixed ==
    \A p \in NodePaths :
        /\ p \in DOMAIN graph'.Nodes
        /\ graph'.Nodes[p].Depth = graph.Nodes[p].Depth

C6_Depth == []C6_DepthIsShortest /\ [][C6_DepthFixed]_vars

\* a node at depth 1 that a node at depth 1 links to as well (a longer path to it)
C6_Witness ==
    /\ pc = "done"
    /\ \E p, q \in NodePaths :
         /\ p # q
         /\ graph.Nodes[p].Depth = 1
         /\ graph.Nodes[q].Depth = 1
         /\ p \in Range(graph.Nodes[q].Links)

\* C7: when the reachable documents outnumber maxPages the graph holds
\* exactly maxPages nodes, all of them reachable, and no reachable document
\* left out is nearer to the root than a node.
C7_FirstMaxPages ==
    (pc = "done" /\ Cardinality(ReachableDocs) > maxPages) =>
        /\ graph.Count = maxPages
        /\ NodeDocs \subseteq ReachableDocs
        /\ \A e \in ReachableDocs \ NodeDocs : \A n \in NodeDocs :
               FsDist[e] >= graph.Nodes[AbsPath(n, sep)].Depth

\* a truncated traversal that kept a node at depth 1 and left a document out
C7_Witness ==
    /\ pc = "done"
    /\ Cardinality(ReachableDocs) > maxPages
    /\ maxPages >= 2
    /\ \E e \in ReachableDocs \ NodeDocs : FsDist[e] = 1

\* C8: whenever BuildGraph stops with a reachable, existing document left out
\* because of the limit, it reports a truncation warning whose excluded count
\* is the number of documents left out, and it returns the graph.
C8_TruncationReported ==
    (pc = "done" /\ ReachableDocs \ NodeDocs # {}) =>
        /\ warnings.truncated
        /\ warnings.excluded = Cardinality(ReachableDocs \ NodeDocs)

----------------------------------------------------------------------------
(* pathRenderer.processImagePath and ImageCache (converter/converter.go) *)

Goroutines == {"render", "other"}

\* a cache that answers with whatever it holds
GetWhateverIsLoaded(path) ==
    IF DOMAIN data # {} THEN data[CHOOSE q \in DOMAIN data : TRUE] ELSE Nil

\* ImageCache.Get
Get(path) == IF path \in DOMAIN data THEN data[path] ELSE Nil

\* ImageCache.Set
Set(d, path, bytes) == (path :> bytes) @@ d

\* processImagePath up to the cleaned absolute path: destinations that are
\* returned as they are, and the path of the others
ResolveImageIn(path, baseDir, os) ==
    IF \/ HasPrefix(path, "#") \/ HasPrefix(path, "data:")
       \/ HasPrefix(path, "mailto:") \/ HasPrefix(path, "tel:")
       \/ HasPrefix(path, "http://") \/ HasPrefix(path, "https://")
    THEN [skip |-> TRUE, absPath |-> path]
    ELSE IF HasPrefix(path, "file:///")
    THEN [skip |-> FALSE, absPath |-> Clean(ReplaceAll(Tail(path), "/", os), os)]
    ELSE IF Contains(path, SchemeTokens)
    THEN [skip |-> TRUE, absPath |-> path]
    ELSE IF baseDir # <<>>
    THEN [skip |-> FALSE, absPath |-> Clean(Join(baseDir, path, os), os)]
    ELSE [skip |-> TRUE, absPath |-> path]

\* the same for the destinations of the document being rendered
ResolvedOn == [os \in Separators |->
                  [d \in Dests |-> ResolveImageIn(d, BaseDir(os), os)]]
ResolveImage(path) == ResolvedOn[sep][path]

\* filepath.Dir(absPath) of a destination of the document
DirsOn == [os \in Separators |->
              [d \in Dests |-> Dir(ResolvedOn[os][d].absPath, os)]]
DirOf(path) == DirsOn[sep][path]

FileURL(absPath) == <<"file:///">> \o ReplaceAll(absPath, "\\", "/")

DataURI(mimeType, bytes) == <<"data:", mimeType, ";base64,", EncodeToString(bytes)>>

\* the embedding branch entered whatever the mode
EmbedsInAnyMode(path) ==
    /\ ~ResolveImage(path).skip
    /\ getMimeTypeFromExtension(ResolveImage(path).absPath) # ""

\* whether processImagePath reaches the embedding branch for this destination
Embeds(path) ==
    /\ ~ResolveImage(path).skip
    /\ selfContained
    /\ getMimeTypeFromExtension(ResolveImage(path).absPath) # ""

\* the result for a destination that is not embedded
WithoutEmbedding(path) ==
    IF ResolveImage(path).skip THEN path ELSE FileURL(ResolveImage(path).absPath)

\* the direct read without the test of its error
DirectReadUnchecked(path) ==
    LET absPath == ResolveImage(path).absPath
        f == ReadFile(absPath, sep)
    IN DataURI(getMimeTypeFromExtension(absPath), IF f.err THEN "" ELSE f.data)

\* the direct read and what follows it
DirectRead(path) ==
    LET absPath == ResolveImage(path).absPath
        f == ReadFile(absPath, sep)
    IN IF f.err THEN FileURL(absPath)
       ELSE DataURI(getMimeTypeFromExtension(absPath), f.data)

Emit(value, fromCache) ==
    /\ rendered' = Append(rendered, value)
    /\ hits' = IF fromCache THEN hits \cup {ridx + 1} ELSE hits
    /\ ridx' = ridx + 1

CurrentDest == doc[ridx + 1]

\* a destination that is returned or turned into a file URL
ResolveWithoutFile ==
    /\ gor["render"].pc = "next"
    /\ ridx < Len(doc)
    /\ ~Embeds(CurrentDest)
    /\ Emit(WithoutEmbedding(CurrentDest), FALSE)
    /\ UNCHANGED <<selfContained, preload, doc, otherDir, gor, data, preloadedDirs,
                   preloadingDirs, tasks, wgDone, reads>>
    /\ UNCHANGED <<sep, graphVars, archVars, navVars, resolveVars>>

\* an embeddable destination, preload off: read the file
ResolveDirect ==
    /\ gor["render"].pc = "next"
    /\ ridx < Len(doc)
    /\ Embeds(CurrentDest)
    /\ ~preload
    /\ Emit(DirectRead(CurrentDest), FALSE)
    /\ reads' = reads \cup {<<"render", ResolveImage(CurrentDest).absPath>>}
    /\ UNCHANGED <<selfContained, preload, doc, otherDir, gor, data, preloadedDirs,
                   preloadingDirs, tasks, wgDone>>
    /\ UNCHANGED <<sep, graphVars, archVars, navVars, resolveVars>>

\* an embeddable destination, preload on: call PreloadDirectory(dir)
ResolveTrigger ==
    /\ gor["render"].pc = "next"
    /\ ridx < Len(doc)
    /\ Embeds(CurrentDest)
    /\ preload
    /\ gor' = [gor EXCEPT !["render"] =
                  [pc |-> "pre1", dir |-> DirOf(CurrentDest),
                   ret |-> <<>>]]
    /\ UNCHANGED <<selfContained, preload, doc, otherDir, ridx, rendered, hits, data,
                   preloadedDirs, preloadingDirs, tasks, wgDone, reads>>
    /\ UNCHANGED <<sep, graphVars, archVars, navVars, resolveVars>>

\* a second goroutine calls PreloadDirectory(otherDir) on the same cache
OtherCalls ==
    /\ gor["other"].pc = "idle"
    /\ otherDir # <<>>
    /\ gor' = [gor EXCEPT !["other"] = [pc |-> "pre1", dir |-> otherDir, ret |-> <<>>]]
    /\ UNCHANGED <<selfContained, preload, doc, otherDir, ridx, rendered, hits, data,
                   preloadedDirs, preloadingDirs, tasks, wgDone, reads>>
    /\ UNCHANGED <<sep, graphVars, archVars, navVars, resolveVars>>

\* the rendering thread waits on the handle it was given
AfterPreloadWaits(g) == IF g = "render" THEN "wait" ELSE "end"

\* where a goroutine continues when PreloadDirectory returns
AfterPreload(g) == IF g = "render" THEN "get" ELSE "end"

\* the handle returned: <<>> for nil, <<wg>> for a WaitGroup
Return(g, handle) == [gor EXCEPT ![g].pc = AfterPreload(g), ![g].ret = handle]

\* line 56: already preloaded
PreloadCheckLoaded(g) ==
    /\ gor[g].pc = "pre1"
    /\ gor' = IF gor[g].dir \in preloadedDirs
              THEN Return(g, <<>>)
              ELSE [gor EXCEPT ![g].pc = "pre2"]
    /\ UNCHANGED <<selfContained, preload, doc, otherDir, ridx, rendered, hits, data,
                   preloadedDirs, preloadingDirs, tasks, wgDone, reads>>
    /\ UNCHANGED <<sep, graphVars, archVars, navVars, resolveVars>>

\* line 61: currently preloading
PreloadCheckLoading(g) ==
    /\ gor[g].pc = "pre2"
    /\ gor' = IF gor[g].dir \in DOMAIN preloadingDirs
              THEN Return(g, <<preloadingDirs[gor[g].dir]>>)
              ELSE [gor EXCEPT ![g].pc = "pre3"]
    /\ UNCHANGED <<selfContained, preload, doc, otherDir, ridx, rendered, hits, data,
                   preloadedDirs, preloadingDirs, tasks, wgDone, reads>>
    /\ UNCHANGED <<sep, graphVars, archVars, navVars, resolveVars>>

\* the deferred calls had wg.Done been deferred last
DeferredStepsDoneFirst == <<"done", "delete", "store">>

\* the deferred calls of the background goroutine, in the order they run
DeferredSteps == <<"delete", "store", "done">>

NewTask(dir) == [dir |-> dir, pc |-> "readdir", pending |-> {}, todo |-> DeferredSteps]

\* lines 66-78: LoadOrStore of a new WaitGroup; the winner starts the goroutine
PreloadClaim(g) ==
    /\ gor[g].pc = "pre3"
    /\ LET dir == gor[g].dir
           wg == Len(tasks) + 1
       IN IF dir \in DOMAIN preloadingDirs
          THEN /\ gor' = [gor EXCEPT ![g].pc = "pre4"]
               /\ UNCHANGED <<preloadingDirs, tasks>>
          ELSE /\ preloadingDirs' = (dir :> wg) @@ preloadingDirs
               /\ tasks' = Append(tasks, NewTask(dir))
               /\ gor' = Return(g, <<wg>>)
    /\ UNCHANGED <<selfContained, preload, doc, otherDir, ridx, rendered, hits, data,
                   preloadedDirs, wgDone, reads>>
    /\ UNCHANGED <<sep, graphVars, archVars, navVars, resolveVars>>

\* lines 72-75: another goroutine won the claim
PreloadLost(g) ==
    /\ gor[g].pc = "pre4"
    /\ gor' = IF gor[g].dir \in DOMAIN preloadingDirs
              THEN Return(g, <<preloadingDirs[gor[g].dir]>>)
              ELSE Return(g, <<>>)
    /\ UNCHANGED <<selfContained, preload, doc, otherDir, ridx, rendered, hits, data,
                   preloadedDirs, preloadingDirs, tasks, wgDone, reads>>
    /\ UNCHANGED <<sep, graphVars, archVars, navVars, resolveVars>>

\* line 599: the cache is tried right after the trigger
CacheGet ==
    /\ gor["render"].pc = "get"
    /\ LET absPath == ResolveImage(CurrentDest).absPath
           imageData == Get(absPath)
       IN IF imageData = Nil
          THEN /\ gor' = [gor EXCEPT !["render"].pc = "read"]
               /\ UNCHANGED <<ridx, rendered, hits>>
          ELSE /\ gor' = [gor EXCEPT !["render"].pc = "next"]
               /\ Emit(DataURI(getMimeTypeFromExtension(absPath), imageData), TRUE)
    /\ UNCHANGED <<selfContained, preload, doc, otherDir, data,
                   preloadedDirs, preloadingDirs, tasks, wgDone, reads>>
    /\ UNCHANGED <<sep, graphVars, archVars, navVars, resolveVars>>

\* lines 604-618: on a miss the file is read and the bytes are stored
CacheMissRead ==
    /\ gor["render"].pc = "read"
    /\ LET absPath == ResolveImage(CurrentDest).absPath
           f == ReadFile(absPath, sep)
       IN data' = IF f.err THEN data ELSE Set(data, absPath, f.data)
    /\ gor' = [gor EXCEPT !["render"].pc = "next"]
    /\ Emit(DirectRead(CurrentDest), FALSE)
    /\ reads' = reads \cup {<<"render", ResolveImage(CurrentDest).absPath>>}
    /\ UNCHANGED <<selfContained, preload, doc, otherDir,
                   preloadedDirs, preloadingDirs, tasks, wgDone>>
    /\ UNCHANGED <<sep, graphVars, archVars, navVars, resolveVars>>

\* line 83-109: the directory is listed, one reader per image file
TaskReadDir(i) ==
    /\ tasks[i].pc = "readdir"
    /\ LET d == ReadDir(tasks[i].dir, sep)
       IN tasks' = [tasks EXCEPT ![i].pc = "reading",
                                 ![i].pending =
                                     IF d.err THEN {}
                                     ELSE {q \in d.entries :
                                              getMimeTypeFromExtension(q) # ""}]
    /\ UNCHANGED <<selfContained, preload, doc, otherDir, gor, ridx, rendered, hits, data,
                   preloadedDirs, preloadingDirs, wgDone, reads>>
    /\ UNCHANGED <<sep, graphVars, archVars, navVars, resolveVars>>

\* line 105: a reader stores what it read unless the read failed
ReaderStoresAnyway(err) == TRUE

ReaderStores(err) == ~err

\* lines 102-108: one reader goroutine
TaskReader(i, q) ==
    /\ tasks[i].pc = "reading"
    /\ q \in tasks[i].pending
    /\ LET f == ReadFile(q, sep)
       IN data' = IF ReaderStores(f.err) THEN Set(data, q, f.data) ELSE data
    /\ tasks' = [tasks EXCEPT ![i].pending = @ \ {q}]
    /\ reads' = reads \cup {<<"task", q>>}
    /\ UNCHANGED <<selfContained, preload, doc, otherDir, gor, ridx, rendered, hits,
                   preloadedDirs, preloadingDirs, wgDone>>
    /\ UNCHANGED <<sep, graphVars, archVars, navVars, resolveVars>>

RestrictTo(f, S) == [x \in S |-> f[x]]

\* lines 79-81 and 110: after loadWg.Wait() the deferred calls run one by one
TaskDeferred(i) ==
    /\ tasks[i].pc = "reading"
    /\ tasks[i].pending = {}
    /\ tasks[i].todo # <<>>
    /\ LET step == Head(tasks[i].todo)
           dir == tasks[i].dir
       IN /\ preloadingDirs' = IF step = "delete"
                               THEN RestrictTo(preloadingDirs, DOMAIN preloadingDirs \ {dir})
                               ELSE preloadingDirs
          /\ preloadedDirs' = IF step = "store" THEN preloadedDirs \cup {dir}
                              ELSE preloadedDirs
          /\ wgDone' = IF step = "done" THEN wgDone \cup {i} ELSE wgDone
    /\ tasks' = [tasks EXCEPT ![i].todo = Tail(@)]
    /\ UNCHANGED <<selfContained, preload, doc, otherDir, gor, ridx, rendered, hits, data,
                   reads>>
    /\ UNCHANGED <<sep, graphVars, archVars, navVars, resolveVars>>

Dirs(os) == {Dir(Join(BaseDir(os), d, os), os) : d \in {ImgX, PicZ}}

AllDocs == UNION {[1..n -> Dests] : n \in 1..MaxRequests}

InitCache ==
    /\ sep \in {"/", "\\"}
    /\ IdleGraph
    /\ selfContained \in BOOLEAN
    /\ preload \in BOOLEAN
    /\ doc \in AllDocs
    /\ otherDir \in (IF preload /\ Len(doc) < MaxRequests
                     THEN Dirs(sep) \cup {<<>>} ELSE {<<>>})
    /\ gor = [g \in Goroutines |->
                 [pc |-> IF g = "render" THEN "next" ELSE "idle", dir |-> <<>>, ret |-> <<>>]]
    /\ ridx = 0
    /\ rendered = <<>>
    /\ hits = {}
    /\ data = <<>>
    /\ preloadedDirs = {}
    /\ preloadingDirs = <<>>
    /\ tasks = <<>>
    /\ wgDone = {}
    /\ reads = {}
    /\ IdleArchive
    /\ IdleNav
    /\ IdleResolve

NextCache ==
    \/ ResolveWithoutFile
    \/ ResolveDirect
    \/ ResolveTrigger
    \/ OtherCalls
    \/ \E g \in Goroutines : PreloadCheckLoaded(g)
    \/ \E g \in Goroutines : PreloadCheckLoading(g)
    \/ \E g \in Goroutines : PreloadClaim(g)
    \/ \E g \in Goroutines : PreloadLost(g)
    \/ CacheGet
    \/ CacheMissRead
    \/ \E i \in DOMAIN tasks : TaskReadDir(i)
    \/ \E i \in DOMAIN tasks : \E q \in tasks[i].pending : TaskReader(i, q)
    \/ \E i \in DOMAIN tasks : TaskDeferred(i)

SpecCache == InitCache /\ [][NextCache]_vars

----------------------------------------------------------------------------
(* Claims about the preload cache *)

TasksOf(dir) == {i \in DOMAIN tasks : tasks[i].dir = dir}

\* C1: whatever the interleaving of PreloadDirectory(dir) calls with the
\* background preload task of dir, at most one background directory read is
\* ever started for dir.
C1_OneReadPerDirectory ==
    \A i \in DOMAIN tasks : TasksOf(tasks[i].dir) = {i}

\* processImagePath with preload disabled, as a function of the destination
NoPreload(path) == IF Embeds(path) THEN DirectRead(path) ELSE WithoutEmbedding(path)

\* C9: with the same document, the same flags and an unchanged filesystem,
\* what is produced with preload enabled equals what is produced with preload
\* disabled, under every interleaving of the background readers with the
\* rendering thread.
C9_PreloadEquivalence ==
    rendered = [k \in 1..ridx |-> NoPreload(doc[k])]

\* a document rendered to its end with preload on: one image came from the
\* cache, another reference fell back to a file URL
C9_Witness ==
    /\ preload
    /\ ridx = Len(doc)
    /\ hits # {}
    /\ \E k \in 1..ridx : Embeds(doc[k]) /\ rendered[k] = FileURL(ResolveImage(doc[k]).absPath)

----------------------------------------------------------------------------
(* pathRenderer.processLinkPath (converter/converter.go) *)

\* the file names that end in ".md"
MdNames == {d[Len(d)] : d \in Docs}

\* strings.HasSuffix(strings.ToLower(path), ".md")
HasSuffixMd(path) == Len(path) > 0 /\ Last(path) \in MdNames

\* filepath.FromSlash
FromSlash(s, os) == ReplaceAll(s, "/", os)

\* lines 503-526: the archive key of a local markdown destination
ArchiveKey(path, baseDir, archiveRootDir, os) ==
    LET joined == IF HasPrefix(path, "file:///") THEN FromSlash(Tail(path), os)
                  ELSE Join(baseDir, path, os)
        absPath == Clean(joined, os)
        rel == Rel(archiveRootDir, absPath, os)
        relPath == IF rel.err THEN Base(absPath, os) ELSE rel.path
    IN ReplaceAll(relPath, "\\", "/")

NavigationReference(key) == <<"javascript:mdviewLoadPage('">> \o key \o <<"')">>

processLinkPath(path, baseDir, archiveMode, archiveRootDir, os) ==
    IF archiveMode /\ archiveRootDir # <<>> /\ HasSuffixMd(path)
    THEN IF ~HasPrefix(path, "file:///") /\ (Contains(path, SchemeTokens) \/ baseDir = <<>>)
         THEN path
         ELSE NavigationReference(ArchiveKey(path, baseDir, archiveRootDir, os))
    ELSE IF \/ Contains(path, SchemeTokens)
            \/ HasPrefix(path, "#") \/ HasPrefix(path, "data:")
            \/ HasPrefix(path, "mailto:") \/ HasPrefix(path, "tel:")
            \/ HasPrefixJavascript(path)
    THEN path
    ELSE IF baseDir = <<>> THEN path
    ELSE <<"file:///">> \o ReplaceAll(Clean(Join(baseDir, path, os), os), "\\", "/")

----------------------------------------------------------------------------
(* ArchiveConverter (archive/converter.go) *)

\* the destination of a link from one document to another as it is written in
\* the markdown text: relative to the linking document, with forward slashes
HrefFor(from, to) == ReplaceAll(Rel(Dir(from, sep), to, sep).path, "\\", "/")

\* the documents a document links to, by path
LinkTargets(mdPath) == {AbsPath(d, sep) : d \in fsLinks[DocOf(mdPath, sep)]}

\* convertPage without SetArchiveRootDir
NoArchiveRootDir == <<>>

\* what convertPage sets the converter's archive root directory to
ConverterArchiveRootDir == NoArchiveRootDir

\* convertPage: the rendered page, as the href emitted for each of its links
convertPage(mdPath) ==
    [of |-> mdPath,
     hrefs |-> [t \in LinkTargets(mdPath) |->
                   processLinkPath(HrefFor(mdPath, t), Dir(mdPath, sep), TRUE,
                                   ConverterArchiveRootDir, sep)]]

\* os.Open(mdPath) fails
ConvertFails(mdPath) == ReadFails(mdPath)

compressData(html) == [gzip |-> html]

EncodePage(compressed) == [base64 |-> compressed]

\* the key of a page in the JavaScript object literal: backslash and quote
\* are escaped, nothing else is changed
RECURSIVE EscapePath(_)
EscapePath(relPath) ==
    IF relPath = <<>> THEN <<>>
    ELSE IF Head(relPath) = "\\" THEN <<"\\", "\\">> \o EscapePath(Tail(relPath))
    ELSE <<Head(relPath)>> \o EscapePath(Tail(relPath))

\* the string a JavaScript string literal denotes
RECURSIVE LiteralValue(_)
LiteralValue(lit) ==
    IF lit = <<>> THEN <<>>
    ELSE IF Head(lit) = "\\" /\ Len(lit) > 1
         THEN <<lit[2]>> \o LiteralValue(Tail(Tail(lit)))
         ELSE <<Head(lit)>> \o LiteralValue(Tail(lit))

\* generateArchiveResources: window.mdviewArchive as the browser reads it
generateArchiveResources(archive) ==
    [pages |-> [k \in {LiteralValue(EscapePath(rp)) : rp \in DOMAIN archive} |->
                   archive[CHOOSE rp \in DOMAIN archive : LiteralValue(EscapePath(rp)) = k]],
     root |-> ReplaceAll(graph.Root, "\\", "/")]

\* OrderedNodes: a node may come next when no unconverted node is less deep
MayComeNext(p) ==
    /\ p \in NodePaths \ converted
    /\ \A q \in NodePaths \ converted : graph.Nodes[p].Depth <= graph.Nodes[q].Depth

\* ConvertToArchive is called with the graph BuildGraph returned
ConvertToArchiveStart ==
    /\ pc = "done"
    /\ archPc = "idle"
    /\ archPc' = "converting"
    /\ UNCHANGED <<archiveData, converted, outFile>>
    /\ UNCHANGED <<sep, graphVars, cacheVars, navVars, resolveVars>>

\* pages keyed by how deep the node is
StoredUnderLevel(node) == IF node.Depth = 0 THEN <<"level0">> ELSE <<"level1">>

\* line 66: archiveData[node.RelativePath]
StoredUnder(node) == node.RelativePath

\* lines 49-67: one turn of the loop over the ordered nodes
ConvertNode ==
    /\ archPc = "converting"
    /\ \E p \in NodePaths :
         /\ MayComeNext(p)
         /\ ~ConvertFails(p)
         /\ archiveData' = (StoredUnder(graph.Nodes[p]) :>
                               EncodePage(compressData(convertPage(p))))
                           @@ archiveData
         /\ converted' = converted \cup {p}
    /\ UNCHANGED <<archPc, outFile>>
    /\ UNCHANGED <<sep, graphVars, cacheVars, navVars, resolveVars>>

\* lines 51-60: convertPage or compressData returns an error; whether the
\* gzip writer fails is not decided by anything the program holds
ConvertNodeFails ==
    /\ archPc = "converting"
    /\ \E p \in NodePaths : \E gzipError \in BOOLEAN :
         /\ MayComeNext(p)
         /\ ConvertFails(p) \/ gzipError
    /\ archPc' = "failed"
    /\ UNCHANGED <<archiveData, converted, outFile>>
    /\ UNCHANGED <<sep, graphVars, cacheVars, navVars, resolveVars>>

\* the write comes before the loop has been through every node
LoopEndedOrNot(conv, nodes) == TRUE

\* line 49: the loop over the ordered nodes has ended
LoopEnded(conv, nodes) == conv = nodes

\* line 82: what os.WriteFile can come to: every byte written; the file not
\* opened (no permission, no such directory); or the file created and
\* truncated, and the write ended by an error part of the way (disk full)
WriteOutcomes == {"written", "notOpened", "short"}

\* line 82: os.WriteFile(outputPath, data, 0644) opens the file with
\* O_CREATE|O_TRUNC, writes and closes; it removes nothing when the write fails
WriteFile(file, bytes, outcome) ==
    CASE outcome = "written"   -> <<bytes>>
      [] outcome = "notOpened" -> file
      [] outcome = "short"     -> <<[truncated |-> bytes]>>

\* lines 70-82: the root page, the resources, and the one write
ConvertToArchiveFinish ==
    /\ archPc = "converting"
    /\ LoopEnded(converted, NodePaths)
    /\ IF ConvertFails(graph.Root)
       THEN /\ archPc' = "failed"
            /\ UNCHANGED outFile
       ELSE \E outcome \in WriteOutcomes :
              LET finalHTML == [rootHTML |-> convertPage(graph.Root),
                                mdviewArchive |-> generateArchiveResources(archiveData)]
              IN  /\ archPc' = IF outcome = "written" THEN "written" ELSE "writeFailed"
                  /\ outFile' = WriteFile(outFile, finalHTML, outcome)
    /\ UNCHANGED <<archiveData, converted>>
    /\ UNCHANGED <<sep, graphVars, cacheVars, navVars, resolveVars>>

NextArchive ==
    \/ BuildGraphRootMissing
    \/ BuildGraphStart
    \/ ProcessUnreadable
    \/ ProcessItem
    \/ BuildGraphReturn
    \/ ConvertToArchiveStart
    \/ ConvertNode
    \/ ConvertNodeFails
    \/ ConvertToArchiveFinish

SpecArchive == InitGraph /\ [][NextArchive]_vars

----------------------------------------------------------------------------
(* Navigation runtime (archive/navigation.js) *)

normalizePath(path) == ReplaceAll(path, "\\", "/")

\* s.split('?')[0].split('#')[0]
RECURSIVE BeforeQueryOrFragment(_)
BeforeQueryOrFragment(s) ==
    IF s = <<>> \/ Head(s) \in {"?", "#"} THEN <<>>
    ELSE <<Head(s)>> \o BeforeQueryOrFragment(Tail(s))

\* s.substring(0, s.lastIndexOf('/'))
RECURSIVE BeforeLastSlash(_)
BeforeLastSlash(s) ==
    IF s = <<>> THEN <<>>
    ELSE IF Last(s) = "/" THEN Front(s)
    ELSE BeforeLastSlash(Front(s))

\* s.split('/').filter(p => p)
Parts(s) == SplitSegs(s, <<>>, "/")

StartsWith(s, prefix) ==
    Len(s) >= Len(prefix) /\ SubSeq(s, 1, Len(prefix)) = prefix

\* the loop of resolvePath over the parts of the relative path
RECURSIVE Walk(_, _)
Walk(parts, baseParts) ==
    IF parts = <<>> THEN baseParts
    ELSE IF Head(parts) = <<"..">>
         THEN Walk(Tail(parts), IF baseParts = <<>> THEN <<>> ELSE Front(baseParts))
    ELSE IF Head(parts) = <<".">> THEN Walk(Tail(parts), baseParts)
    ELSE Walk(Tail(parts), Append(baseParts, Head(parts)))

resolvePath(basePath, relativePath) ==
    LET rel == BeforeQueryOrFragment(relativePath)
    IN IF HasPrefix(rel, "/") \/ HasPrefix(rel, "C:")
       THEN normalizePath(rel)
       ELSE JoinSegs(Walk(Parts(rel), Parts(BeforeLastSlash(basePath))), "/")

getRelativePath(absolutePath, root) ==
    LET normalized == normalizePath(absolutePath)
        rootDir == BeforeLastSlash(normalizePath(root))
        rootParts == Parts(rootDir)
        pathParts == Parts(normalized)
        commonLength == CommonLen(rootParts, pathParts)
        upPath == [i \in 1..(Len(rootParts) - commonLength) |-> <<"..">>]
        downPath == SubSeq(pathParts, commonLength + 1, Len(pathParts))
    IN IF root = <<>> THEN absolutePath
       ELSE IF StartsWith(normalized, rootDir \o <<"/">>)
       THEN SubSeq(normalized, Len(rootDir) + 2, Len(normalized))
       ELSE JoinSegs(upPath \o downPath, "/")

isLocalMarkdownLink(href) ==
    /\ href # <<>>
    /\ ~HasPrefix(href, "#")
    /\ ~HasPrefix(href, "mailto:")
    /\ ~HasPrefix(href, "tel:")
    /\ ~Contains(href, SchemeTokens)
    /\ HasSuffixMd(BeforeQueryOrFragment(href))

\* loadEmbeddedPage, lines 170-176: the key looked up for a clicked href
LookupKey(currentPage, href, root) ==
    getRelativePath(resolvePath(currentPage, href), root)

----------------------------------------------------------------------------
(* Claims about the bundle *)

Bundle == outFile[1].mdviewArchive

\* the document a bundle entry holds
PageOf(entry) == entry.base64.gzip

\* the keys under which the pages map holds the page of a document
PageKeys(p) == {k \in DOMAIN Bundle.pages : PageOf(Bundle.pages[k]).of = p}

\* the key the resolver puts into the navigation reference for a link from q
\* to p, the archive root directory being the directory of the root document
ResolverKey(q, p) ==
    ArchiveKey(HrefFor(q, p), Dir(q, sep), Dir(graph.Root, sep), sep)

\* C2: for every document in the graph, the key under which the packager
\* stores it in the pages map and the key in the navigation reference the
\* resolver generates for a link to it are the same string, with forward
\* slashes only, whatever the host separator.
C2_KeyNormalization ==
    archPc = "written" =>
        \A p \in NodePaths : \A q \in NodePaths :
            /\ PageKeys(p) = {ResolverKey(q, p)}
            /\ ~Contains(ResolverKey(q, p), {"\\"})

\* the pages a reader of the bundle can be on: the root page and the entries
RenderedPages ==
    {outFile[1].rootHTML} \cup {PageOf(Bundle.pages[k]) : k \in DOMAIN Bundle.pages}

\* window.mdviewCurrentPage while a page is shown
CurrentPageFor(page) ==
    IF page.of = graph.Root THEN Bundle.root ELSE normalizePath(page.of)

\* C10: every link to a local markdown document in a page rendered by
\* convertPage is emitted in a form the click handler recognizes as a
\* navigation reference and resolves to that document's key in the bundle.
C10_LinksNavigate ==
    archPc = "written" =>
        \A page \in RenderedPages : \A t \in DOMAIN page.hrefs :
            t \in NodePaths =>
                /\ isLocalMarkdownLink(page.hrefs[t])
                /\ LookupKey(CurrentPageFor(page), page.hrefs[t], Bundle.root)
                       \in PageKeys(t)

----------------------------------------------------------------------------
(* Navigation runtime: the click handlers (archive/navigation.js) *)

\* the bundle the packager makes of the documents reachable under the links l,
\* each page keeping its markdown links as relative destinations, which is
\* the form isLocalMarkdownLink accepts
RelativeLinkPage(d, l, os) ==
    [of |-> AbsPath(d, os),
     hrefs |-> [t \in {AbsPath(x, os) : x \in l[d]} |->
                   ReplaceAll(Rel(Dir(AbsPath(d, os), os), t, os).path, "\\", "/")]]

BundleKey(d, os) ==
    LiteralValue(EscapePath(Rel(Dir(AbsPath(RootDoc, os), os), AbsPath(d, os), os).path))

BundleOf(l, os) ==
    [pages |-> [k \in {BundleKey(d, os) : d \in LinkClosure(l, {RootDoc})} |->
                   EncodePage(compressData(
                       RelativeLinkPage(CHOOSE d \in Docs : BundleKey(d, os) = k, l, os)))],
     root |-> ReplaceAll(AbsPath(RootDoc, os), "\\", "/")]

\* a link that leaves the bundle
ExternalHref == <<"https://", "h", "/", "x.md">>

\* a link to a markdown document that discovery skipped: it has no page
MissingHref == <<"gone.md">>

\* a payload that is not the base64 of a gzip stream
DamagedPayload == [base64 |-> [damaged |-> TRUE]]

\* the bundle with the payloads under these keys damaged
Damage(bundle, keys) ==
    [bundle EXCEPT !.pages = [k \in DOMAIN bundle.pages |->
                                 IF k \in keys THEN DamagedPayload ELSE bundle.pages[k]]]

\* the keys whose payload may be found damaged: none, or one page other than
\* the root page
DamagedKeys(bundle, os) ==
    {{}} \cup {{k} : k \in DOMAIN bundle.pages \ {BundleKey(RootDoc, os)}}

\* decompression that takes any payload
decompressAnything(compressed) ==
    IF "gzip" \in DOMAIN compressed.base64
    THEN <<compressed.base64.gzip>>
    ELSE <<[of |-> <<"?">>, hrefs |-> <<>>]>>

\* decompressPage: <<html>>, or <<>> for null
decompressPage(compressed) ==
    IF "base64" \in DOMAIN compressed /\ "gzip" \in DOMAIN compressed.base64
    THEN <<compressed.base64.gzip>>
    ELSE <<>>

\* extractArticle: the content region of the page
extractArticle(html) == [of |-> html.of, hrefs |-> html.hrefs]

\* the root page as the document shows it
RootPage == PageOf(mdviewArchive.pages[BundleKey(RootDoc, sep)])

\* the anchors that can be clicked: those of the overlay when it is visible,
\* those of the root page when it is not
ClickableHrefs ==
    LET page == IF overlayVisible THEN overlayBody ELSE RootPage
    IN {page.hrefs[t] : t \in DOMAIN page.hrefs} \cup {ExternalHref, MissingHref}

\* hideOverlay
hideOverlay(history, currentPage) ==
    [visible |-> FALSE,
     currentPage |-> IF Len(history) > 0 THEN Last(history) ELSE currentPage]

\* loadEmbeddedPage(href): the state it leaves
loadEmbeddedPage(href) ==
    LET absolutePath == resolvePath(mdviewCurrentPage, href)
        relativePath == getRelativePath(absolutePath, mdviewArchive.root)
        found == relativePath \in DOMAIN mdviewArchive.pages
        html == IF found THEN decompressPage(mdviewArchive.pages[relativePath]) ELSE <<>>
        isBackLink == Len(mdviewHistory) > 0 /\ absolutePath = Last(mdviewHistory)
        unchanged == [history |-> mdviewHistory, currentPage |-> mdviewCurrentPage,
                      visible |-> overlayVisible, body |-> overlayBody]
    IN IF ~found THEN unchanged @@ [did |-> "notfound"]
       ELSE IF html = <<>> THEN unchanged @@ [did |-> "undecodable"]
       ELSE IF isBackLink
       THEN [history |-> Front(mdviewHistory),
             currentPage |-> hideOverlay(mdviewHistory, mdviewCurrentPage).currentPage,
             visible |-> FALSE,
             body |-> overlayBody,
             did |-> "back"]
       ELSE [history |-> Append(mdviewHistory, mdviewCurrentPage),
             currentPage |-> absolutePath,
             visible |-> TRUE,
             body |-> extractArticle(html[1]),
             did |-> "forward"]

\* the history stack is followed up to this depth
MaxHistory == 3

\* handleClick on an anchor with this href
HandleClick(href) ==
    /\ href \in ClickableHrefs
    /\ IF isLocalMarkdownLink(href)
       THEN LET r == loadEmbeddedPage(href)
            IN /\ Len(r.history) <= MaxHistory
               /\ mdviewHistory' = r.history
               /\ mdviewCurrentPage' = r.currentPage
               /\ overlayVisible' = r.visible
               /\ overlayBody' = r.body
               /\ navLast' = r.did
       ELSE /\ navLast' = "ignored"
            /\ UNCHANGED <<mdviewHistory, mdviewCurrentPage, overlayVisible, overlayBody>>
    /\ UNCHANGED mdviewArchive
    /\ UNCHANGED <<sep, graphVars, cacheVars, archVars, resolveVars>>

\* handleClose on the overlay's background or its close button
HandleClose ==
    /\ overlayVisible
    /\ overlayVisible' = FALSE
    /\ mdviewCurrentPage' = hideOverlay(mdviewHistory, mdviewCurrentPage).currentPage
    /\ mdviewHistory' = IF Len(mdviewHistory) > 0 THEN Front(mdviewHistory) ELSE mdviewHistory
    /\ navLast' = "close"
    /\ UNCHANGED <<mdviewArchive, overlayBody>>
    /\ UNCHANGED <<sep, graphVars, cacheVars, archVars, resolveVars>>

\* the link sets of the documents of a bundle
BundleLinks ==
    {l \in [Docs -> SUBSET Docs] :
        /\ EdgeCount(l) <= MaxEdges
        /\ \A d \in Docs \ LinkClosure(l, {RootDoc}) : l[d] = {}}

InitNav ==
    /\ sep \in {"/", "\\"}
    /\ IdleGraph
    /\ IdleCache
    /\ IdleArchive
    /\ IdleResolve
    /\ \E l \in BundleLinks : \E keys \in DamagedKeys(BundleOf(l, sep), sep) :
          mdviewArchive = Damage(BundleOf(l, sep), keys)
    /\ mdviewHistory = <<>>
    /\ mdviewCurrentPage = mdviewArchive.root
    /\ overlayVisible = FALSE
    /\ overlayBody = <<>>
    /\ navLast = "none"

NextNav ==
    \/ \E href \in ClickableHrefs : HandleClick(href)
    \/ HandleClose

SpecNav == InitNav /\ [][NextNav]_vars

----------------------------------------------------------------------------
(* Claims about the navigation runtime *)

\* the document whose content the reader sees
Displayed(visible, body) == IF visible THEN body.of ELSE RootPage.of

DisplayedDoc == Displayed(overlayVisible, overlayBody)

\* the bundle key a recorded page reference stands for
KeyOfReference(ref) == getRelativePath(ref, mdviewArchive.root)

\* the recorded current page is the page that is displayed
IsDisplayed(currentPage, visible, body) ==
    /\ KeyOfReference(currentPage) \in DOMAIN mdviewArchive.pages
    /\ PageOf(mdviewArchive.pages[KeyOfReference(currentPage)]).of = Displayed(visible, body)

CurrentIsDisplayed == IsDisplayed(mdviewCurrentPage, overlayVisible, overlayBody)

\* a click on href that finds its page in the bundle
NavigatesTo(href) ==
    /\ isLocalMarkdownLink(href)
    /\ LookupKey(mdviewCurrentPage, href, mdviewArchive.root) \in DOMAIN mdviewArchive.pages

\* the page href leads to is the one on top of the history stack
TargetIsTopOfStack(href) ==
    /\ Len(mdviewHistory) > 0
    /\ LookupKey(mdviewCurrentPage, href, mdviewArchive.root)
           = KeyOfReference(Last(mdviewHistory))

C11_Forward(href) ==
    /\ mdviewHistory' = Append(mdviewHistory, mdviewCurrentPage)
    /\ KeyOfReference(mdviewCurrentPage')
           = LookupKey(mdviewCurrentPage, href, mdviewArchive.root)
    /\ IsDisplayed(mdviewCurrentPage', overlayVisible', overlayBody')

C11_Back ==
    /\ mdviewHistory' = Front(mdviewHistory)
    /\ mdviewCurrentPage' = Last(mdviewHistory)
    /\ IsDisplayed(mdviewCurrentPage', overlayVisible', overlayBody')

C11_EmptyStackIsRoot ==
    mdviewHistory = <<>> =>
        /\ ~overlayVisible
        /\ KeyOfReference(mdviewCurrentPage) = BundleKey(RootDoc, sep)

\* C11: a successful forward navigation pushes the previously current page
\* and makes the target the current, displayed page; a navigation whose
\* target is the top of the stack pops that entry and restores it as the
\* current, displayed page; with the stack empty the root page is current
\* and displayed.
C11_HistoryStack ==
    /\ []C11_EmptyStackIsRoot
    /\ [][\A href \in ClickableHrefs :
            (HandleClick(href) /\ NavigatesTo(href)) =>
                IF TargetIsTopOfStack(href) THEN C11_Back ELSE C11_Forward(href)]_vars

----------------------------------------------------------------------------
(* Claims about ConvertToArchive *)

\* every node has been rendered, compressed and encoded
AllNodesStored ==
    \A p \in NodePaths :
        /\ graph.Nodes[p].RelativePath \in DOMAIN archiveData
        /\ "gzip" \in DOMAIN archiveData[graph.Nodes[p].RelativePath].base64

C12_WrittenOnlyWhenComplete ==
    /\ archPc = "failed" => outFile = <<>>
    /\ outFile # <<>> =>
          /\ archPc \in {"written", "writeFailed"}
          /\ converted = NodePaths
          /\ AllNodesStored
          /\ archPc = "written" => outFile[1].rootHTML = convertPage(graph.Root)

C12_WrittenOnce ==
    /\ outFile # <<>> => outFile' = outFile
    /\ archPc = "failed" => archPc' = "failed"

\* C12: ConvertToArchive writes the destination at most once, and only after
\* every node has been rendered, compressed and encoded and the root page has
\* been rendered; after a failure the destination is never written.
C12_SingleCompleteWrite ==
    []C12_WrittenOnlyWhenComplete /\ [][C12_WrittenOnce]_vars

\* a bundle of several pages has been written
C12_Witness ==
    /\ archPc = "written"
    /\ Cardinality(NodePaths) >= 2
    /\ outFile # <<>>

\* a build that failed after some pages had been converted
C12_FailureReached ==
    /\ archPc = "failed"
    /\ converted # {}

----------------------------------------------------------------------------
(* Claims about links to files that do not exist *)

MissingPaths == {AbsPath(d, sep) : d \in {x \in Docs : fsStatus[x] = "missing"}}

QueuedPaths(q) == {q[k].path : k \in DOMAIN q}

\* a missing target is never visited, enqueued or added, stays in the Links
\* of every node that links to it, and the only error is a missing root
C13_MissingExcluded ==
    /\ pc = "error" => StatNotExist(AbsPath(RootDoc, sep))
    /\ pc \in {"loop", "done"} =>
          /\ \A m \in MissingPaths :
                /\ m \notin DOMAIN graph.Nodes
                /\ m \notin visited
                /\ m \notin QueuedPaths(queue)
                /\ hist[m].enq = 0
          /\ \A n \in DOMAIN graph.Nodes :
                \A d \in fsLinks[DocOf(n, sep)] :
                    fsStatus[d] = "missing" => AbsPath(d, sep) \in Range(graph.Nodes[n].Links)

\* the iteration that adds the node at the head of the queue: every missing
\* link is warned about (when underLimit is set: if the graph is still under
\* the limit), and the links after it are enqueued as usual
C13_Iteration(underLimit) ==
    LET cur == Head(queue).path
        links == graph'.Nodes[cur].Links
        room == graph'.Count < maxPages
    IN \A i \in DOMAIN links :
          StatNotExist(links[i]) =>
             /\ (underLimit => room) => <<cur, links[i]>> \in warnings'.missing
             /\ links[i] \notin QueuedPaths(queue')
             /\ \A j \in DOMAIN links :
                   (j > i /\ room /\ links[j] \notin visited /\ ~StatNotExist(links[j]))
                      => links[j] \in visited' /\ links[j] \in QueuedPaths(queue')

\* C13 (amended): a link to a missing file, met while the graph holds fewer
\* than maxPages nodes, is warned about; a missing target is never enqueued or
\* added, the links after it are still processed, there is no error, and the
\* target stays in the linking node's Links.
C13_MissingLinkSkipped ==
    []C13_MissingExcluded /\ [][(pc = "loop" /\ graph' # graph) => C13_Iteration(TRUE)]_vars

\* C13 as stated: every link to a missing file is warned about.
C13_MissingLinkAlwaysWarned ==
    []C13_MissingExcluded /\ [][(pc = "loop" /\ graph' # graph) => C13_Iteration(FALSE)]_vars

\* a finished traversal that warned about a missing link and went on to add
\* the target of a later link of the same document
C13_Witness ==
    /\ pc = "done"
    /\ \E n \in DOMAIN graph.Nodes :
         LET links == graph.Nodes[n].Links IN
         \E i, j \in DOMAIN links :
            /\ i < j
            /\ <<n, links[i]>> \in warnings.missing
            /\ links[j] \in DOMAIN graph.Nodes
            /\ graph.Nodes[links[j]].Depth = graph.Nodes[n].Depth + 1

----------------------------------------------------------------------------
(* Claims about the root document *)

\* C14: BuildGraph returns an error, and no graph, whenever rootPath does not
\* exist or cannot be read.
C14_RootFailureIsError ==
    /\ pc = "error" => graph = NilGraph
    /\ pc = "done" => ~ReadFails(AbsPath(RootDoc, sep))

----------------------------------------------------------------------------
(* Claims about images that cannot be embedded *)

\* a reference to a local image that does not exist or cannot be read
Unobtainable(path) ==
    /\ ~ResolveImage(path).skip
    /\ getMimeTypeFromExtension(ResolveImage(path).absPath) # ""
    /\ ReadFile(ResolveImage(path).absPath, sep).err

IsDataURI(value) == HasPrefix(value, "data:")

\* C15: in self-contained mode a reference to a local image that does not
\* exist or cannot be read resolves to a file:/// reference, never to a data
\* URI; every reference yields a result; preload on or off.
C15_MissingAssetFallback ==
    /\ Len(rendered) = ridx
    /\ selfContained =>
          \A k \in 1..ridx :
              Unobtainable(doc[k]) =>
                 /\ rendered[k] = FileURL(ResolveImage(doc[k]).absPath)
                 /\ HasPrefix(rendered[k], "file:///")
                 /\ ~IsDataURI(rendered[k])
    /\ \A q \in DOMAIN data : ~ReadFile(q, sep).err /\ data[q] = Content(q, sep)

\* with preload on, a document naming a missing and an unreadable image has
\* been rendered to its end while a directory task was at work
C15_Witness ==
    /\ selfContained /\ preload
    /\ ridx = Len(doc)
    /\ gor["render"].pc = "next"
    /\ tasks # <<>>
    /\ \E j, k \in 1..ridx : doc[j] = ImgGone /\ doc[k] = ImgU

\* the same with preload off
C15_WitnessNoPreload ==
    /\ selfContained /\ ~preload
    /\ ridx = Len(doc)
    /\ \E j, k \in 1..ridx : doc[j] = ImgGone /\ doc[k] = ImgU

----------------------------------------------------------------------------
(* One call of processLinkPath or processImagePath on a fresh pathRenderer *)

\* processImagePath without a cache
processImagePath(path, baseDir, selfCont, os) ==
    LET r == ResolveImageIn(path, baseDir, os)
        mimeType == getMimeTypeFromExtension(r.absPath)
        f == ReadFile(r.absPath, os)
    IN IF r.skip THEN path
       ELSE IF selfCont /\ mimeType # "" /\ ~f.err
       THEN DataURI(mimeType, f.data)
       ELSE FileURL(r.absPath)

\* destinations that are not local paths, with and without a markdown ending
Anchors == {<<"#", "top">>, <<"#", "a.md">>}
HttpDests == {<<"http://", "h", "/", "a.md">>, <<"https://", "h", "/", "a.md">>, Remote}
MailDests == {<<"mailto:", "u@h">>, <<"mailto:", "u@", "a.md">>}
TelDests == {<<"tel:", "5">>, <<"tel:", "a.md">>}
DataDests == {<<"data:", "image", "/", "png;base64,", "WA==">>, <<"data:", "text", "/", "plain,", "a.md">>}
LocalDests == {<<"a.md">>, <<"sub", "/", "b.md">>, ImgX, ImgGone,
               <<"file:///", "r", "/", "a.md">>}
\* file names with an apostrophe
QuoteDests == {<<"o", "'", "s", ".png">>, <<"o", "'", "a.md">>}
\* local markdown destinations with a fragment or a query string
FragmentDests == {<<"a.md", "#", "sec">>, <<"a.md", "?", "v=1">>,
                  <<"file:///", "r", "/", "a.md", "#", "sec">>}
ResolveDests == Anchors \cup HttpDests \cup MailDests \cup TelDests \cup DataDests
                \cup LocalDests \cup QuoteDests \cup FragmentDests

\* New(), SetBaseDir, SetSelfContained, SetArchiveMode, SetArchiveRootDir
Renderers(os) ==
    [baseDir : {<<>>, BaseDir(os)},
     selfContained : BOOLEAN,
     archiveMode : BOOLEAN,
     archiveRootDir : {<<>>, BaseDir(os), HostVolume(os) \o <<os, "x">>}]

InitResolve ==
    /\ sep \in {"/", "\\"}
    /\ IdleGraph
    /\ IdleCache
    /\ IdleArchive
    /\ IdleNav
    /\ call \in {[r |-> r, path |-> d] : r \in Renderers(sep), d \in ResolveDests}
    /\ result = <<>>

\* lines 362-364: target="_blank" unless the href is javascript: or an anchor
OpensNewContext(finalDest) ==
    ~HasPrefixJavascript(finalDest) /\ ~HasPrefix(finalDest, "#")

\* renderLink: the href of a link goes through processLinkPath
RenderLink ==
    /\ result = <<>>
    /\ LET finalDest == processLinkPath(call.path, call.r.baseDir, call.r.archiveMode,
                                        call.r.archiveRootDir, sep)
       IN result' = <<[by |-> "processLinkPath", value |-> finalDest,
                       marker |-> OpensNewContext(finalDest)]>>
    /\ UNCHANGED <<sep, call, graphVars, cacheVars, archVars, navVars>>

\* renderImage: the src of an image goes through processImagePath
RenderImage ==
    /\ result = <<>>
    /\ result' = <<[by |-> "processImagePath",
                    value |-> processImagePath(call.path, call.r.baseDir,
                                               call.r.selfContained, sep)]>>
    /\ UNCHANGED <<sep, call, graphVars, cacheVars, archVars, navVars>>

\* the characters the attribute patterns take for a delimiter: ["']
Quotes == {"\"", "'"}

\* ([^"']+): the longest run without a quote character
RECURSIVE UpToQuote(_)
UpToQuote(text) ==
    IF text = <<>> \/ Head(text) \in Quotes THEN <<>>
    ELSE <<Head(text)>> \o UpToQuote(Tail(text))

\* a raw HTML image: <img src="dest">, as the text after src="
RawImageAfterSrc(dest) == dest \o <<"\"", ">">>

\* an attribute target="_self" of a raw HTML anchor
TargetAttribute == <<" ", "target=", "\"", "_self", "\"">>

\* a raw HTML anchor <a [target] href="dest" [target]>: the text up to the
\* href value and the text after it up to the closing bracket
RawAnchorBeforeHref(targetAt) ==
    <<"<a">> \o (IF targetAt = "before" THEN TargetAttribute ELSE <<>>) \o <<" ", "href=", "\"">>
RawAnchorAfterHref(dest, targetAt) ==
    dest \o <<"\"">> \o (IF targetAt = "after" THEN TargetAttribute ELSE <<>>)

\* lines 417-424: srcPattern on a raw HTML image
RenderRawImage ==
    /\ result = <<>>
    /\ LET after == RawImageAfterSrc(call.path)
           path == UpToQuote(after)
       IN result' = <<[by |-> "rawImage", path |-> path,
                       value |-> processImagePath(path, call.r.baseDir,
                                                  call.r.selfContained, sep)]>>
    /\ UNCHANGED <<sep, call, graphVars, cacheVars, archVars, navVars>>

\* lines 427-442: anchorNoTargetPattern on a raw HTML anchor
RenderRawAnchor ==
    /\ result = <<>>
    /\ \E targetAt \in {"none", "before", "after"} :
         LET after == RawAnchorAfterHref(call.path, targetAt)
             path == UpToQuote(after)
             middle == SubSeq(after, Len(path) + 1, Len(after))
             processedPath == processLinkPath(path, call.r.baseDir, call.r.archiveMode,
                                              call.r.archiveRootDir, sep)
         IN result' = <<[by |-> "rawAnchor", path |-> path, value |-> processedPath,
                         targetAt |-> targetAt,
                         marker |-> /\ OpensNewContext(processedPath)
                                    /\ ~Contains(middle, {"target="})]>>
    /\ UNCHANGED <<sep, call, graphVars, cacheVars, archVars, navVars>>

\* scanner.go processLink: strings.Split(href, "#")[0], then
\* strings.Split(href, "?")[0]
RECURSIVE StripFragmentAndQuery(_)
StripFragmentAndQuery(href) ==
    IF href = <<>> \/ Head(href) \in {"#", "?"} THEN <<>>
    ELSE <<Head(href)>> \o StripFragmentAndQuery(Tail(href))

\* scanner.go processLink: the absolute path of a local .md link, or <<>> for ""
processLink(href, baseDir, os) ==
    IF href = <<>> THEN <<>>
    ELSE IF HasPrefix(href, "#") THEN <<>>
    ELSE IF HasPrefix(href, "file:///")
    THEN LET stripped == StripFragmentAndQuery(FromSlash(Tail(href), os))
         IN  IF ~HasSuffixMd(stripped) THEN <<>> ELSE Clean(stripped, os)
    ELSE IF \/ HasPrefix(href, "http://") \/ HasPrefix(href, "https://")
            \/ HasPrefix(href, "mailto:") \/ HasPrefix(href, "tel:")
            \/ HasPrefix(href, "ftp://") \/ Contains(href, SchemeTokens)
    THEN <<>>
    ELSE LET stripped == StripFragmentAndQuery(href)
         IN  IF ~HasSuffixMd(stripped) THEN <<>>
             ELSE Clean(Join(baseDir, stripped, os), os)

\* processLinkPath, lines 503-518: the absolute path a reference is made for
ResolverTarget(path, baseDir, os) ==
    Clean(IF HasPrefix(path, "file:///") THEN FromSlash(Tail(path), os)
          ELSE Join(baseDir, path, os), os)

\* visit: the scanner comes to a link with this destination
ScanLink ==
    /\ result = <<>>
    /\ result' = <<[by |-> "processLink",
                    value |-> processLink(call.path, call.r.baseDir, sep)]>>
    /\ UNCHANGED <<sep, call, graphVars, cacheVars, archVars, navVars>>

NextResolve == RenderLink \/ RenderImage \/ RenderRawImage \/ RenderRawAnchor \/ ScanLink

SpecResolve == InitResolve /\ [][NextResolve]_vars

\* an anchor, or a destination with the http, https, mailto, tel or data scheme
IsPassthrough(path) ==
    \/ HasPrefix(path, "#")
    \/ HasPrefix(path, "http://") \/ HasPrefix(path, "https://")
    \/ HasPrefix(path, "mailto:") \/ HasPrefix(path, "tel:") \/ HasPrefix(path, "data:")

\* C16: whatever the base directory, the flags and the archive root, an anchor
\* or a destination with the http, https, mailto, tel or data scheme is
\* returned unchanged by the link resolver and by the image resolver.
C16_PassthroughUnchanged ==
    (result # <<>> /\ IsPassthrough(call.path)) => result[1].value = call.path

\* the same for the image resolver alone
C16_ImagePassthrough ==
    (result # <<>> /\ IsPassthrough(call.path) /\ result[1].by = "processImagePath")
        => result[1].value = call.path

\* the same for the link resolver outside archive mode
C16_LinkPassthroughOutsideArchive ==
    (result # <<>> /\ IsPassthrough(call.path) /\ result[1].by = "processLinkPath"
       /\ ~(call.r.archiveMode /\ call.r.archiveRootDir # <<>>))
        => result[1].value = call.path

----------------------------------------------------------------------------
(* Claims about when an image is embedded *)

ReadBy(who) == {r[2] : r \in {x \in reads : x[1] = who}}

\* C17: a data URI is produced only if self-contained mode is on, the
\* extension of the resolved file maps to a MIME type and the bytes of the
\* file were obtained; with self-contained mode off or an unknown extension
\* the resolver reads no asset file and the result is a file:/// reference.
C17_EmbedOnlyWhenAllowed ==
    /\ \A k \in 1..ridx :
          LET r == ResolveImage(doc[k]) IN
          ~r.skip =>
             /\ IsDataURI(rendered[k]) =>
                   /\ selfContained
                   /\ getMimeTypeFromExtension(r.absPath) # ""
                   /\ ~ReadFile(r.absPath, sep).err
                   /\ r.absPath \in ReadBy("render") \cup ReadBy("task")
                   /\ rendered[k] = DataURI(getMimeTypeFromExtension(r.absPath),
                                            Content(r.absPath, sep))
             /\ (~selfContained \/ getMimeTypeFromExtension(r.absPath) = "") =>
                   /\ rendered[k] = FileURL(r.absPath)
                   /\ r.absPath \notin ReadBy("render")
    /\ ~selfContained => ReadBy("render") = {} /\ gor["render"].pc = "next"
    /\ \A q \in ReadBy("render") \cup ReadBy("task") : getMimeTypeFromExtension(q) # ""

\* one reference of the document was embedded, another, to a file that is
\* not an image, became a file URL
C17_Witness ==
    /\ selfContained
    /\ ridx = Len(doc)
    /\ \E j, k \in 1..ridx :
          /\ IsDataURI(rendered[j])
          /\ doc[k] = ImgN
          /\ rendered[k] = FileURL(ResolveImage(ImgN).absPath)

----------------------------------------------------------------------------
(* Claims about repeated references *)

\* a reference to an existing image that can be embedded
Embeddable(path) ==
    Embeds(path) /\ ~ReadFile(ResolveImage(path).absPath, sep).err

EmbeddedAt == {k \in 1..ridx : IsDataURI(rendered[k])}

\* C18: self-contained with preload on, the references to one existing image
\* all yield the same data URI, and the output holds as many data URIs as
\* there are references to existing embeddable images, whatever else the
\* prefetch has put into the cache.
C18_EmbeddingIdempotent ==
    (selfContained /\ preload) =>
       /\ \A j, k \in 1..ridx :
             (doc[j] = doc[k] /\ Embeddable(doc[j])) =>
                 IsDataURI(rendered[j]) /\ rendered[j] = rendered[k]
       /\ Cardinality(EmbeddedAt) = Cardinality({k \in 1..ridx : Embeddable(doc[k])})

\* two references to one image have been rendered, the second from the
\* cache, while the prefetch had loaded the other image of the directory
C18_Witness ==
    /\ selfContained /\ preload
    /\ ridx = Len(doc) /\ ridx >= 2
    /\ doc[1] = PicZ /\ doc[2] = PicZ
    /\ 2 \in hits
    /\ Join(BaseDir(sep), PicY, sep) \in DOMAIN data

----------------------------------------------------------------------------
(* Claims about the rendering thread and the prefetch *)

\* wherever the rendering thread stands inside a reference, its next step
\* can be taken, whatever the background tasks have or have not done
C19_NeverBlocked ==
    LET at == gor["render"].pc IN
    /\ at \in {"next", "pre1", "pre2", "pre3", "pre4", "get", "read"}
    /\ (at = "next" /\ ridx < Len(doc)) =>
          IF ~Embeds(CurrentDest) THEN ENABLED ResolveWithoutFile
          ELSE IF preload THEN ENABLED ResolveTrigger
          ELSE ENABLED ResolveDirect
    /\ at = "pre1" => ENABLED PreloadCheckLoaded("render")
    /\ at = "pre2" => ENABLED PreloadCheckLoading("render")
    /\ at = "pre3" => ENABLED PreloadClaim("render")
    /\ at = "pre4" => ENABLED PreloadLost("render")
    /\ at = "get" => ENABLED CacheGet
    /\ at = "read" => ENABLED CacheMissRead
    /\ Len(rendered) = ridx

\* the step after the trigger tries the cache; a miss goes on to the direct
\* read, which stores what it read and resolves the reference
C19_GetThenRead ==
    LET absPath == ResolveImage(CurrentDest).absPath IN
    /\ (gor["render"].pc = "get" /\ gor'["render"].pc # "get") =>
          IF Get(absPath) = Nil
          THEN gor'["render"].pc = "read" /\ ridx' = ridx
          ELSE gor'["render"].pc = "next" /\ ridx' = ridx + 1 /\ reads' = reads
    /\ (gor["render"].pc = "read" /\ gor'["render"].pc # "read") =>
          /\ <<"render", absPath>> \in reads'
          /\ ~ReadFile(absPath, sep).err =>
                absPath \in DOMAIN data' /\ data'[absPath] = Content(absPath, sep)
          /\ gor'["render"].pc = "next" /\ ridx' = ridx + 1

\* C19: the rendering thread never waits for a directory prefetch: after the
\* trigger it tries the cache at once and on a miss reads the file itself and
\* stores the bytes, so every reference is resolved even if the background
\* task has not finished or never finishes.
C19_RenderNeverWaits == []C19_NeverBlocked /\ [][C19_GetThenRead]_vars

\* the whole document has been resolved by direct reads while the task the
\* first reference started has not taken a single step
C19_Witness ==
    /\ selfContained /\ preload
    /\ ridx = Len(doc) /\ ridx >= 2
    /\ gor["render"].pc = "next"
    /\ tasks # <<>>
    /\ \A i \in DOMAIN tasks : tasks[i].pc = "readdir"
    /\ \A k \in 1..ridx : Embeddable(doc[k]) /\ IsDataURI(rendered[k])
    /\ hits = {}

----------------------------------------------------------------------------
(* Claims about the completion of a directory *)

\* the readable image files of a directory
ReadableImages(dir) ==
    {q \in ReadDir(dir, sep).entries :
        getMimeTypeFromExtension(q) # "" /\ ~ReadFile(q, sep).err}

Loaded(dir) ==
    \A q \in ReadableImages(dir) : q \in DOMAIN data /\ data[q] = Content(q, sep)

\* the background goroutine i has marked its directory complete
HasMarked(i) == \A k \in DOMAIN tasks[i].todo : tasks[i].todo[k] # "store"

\* marking and release come after the readers; a released handle means the
\* directory is complete and its readable images are in the cache
C20_CompleteAfterReaders ==
    /\ \A i \in DOMAIN tasks :
          /\ (HasMarked(i) \/ i \in wgDone) =>
                tasks[i].pc = "reading" /\ tasks[i].pending = {}
          /\ i \in wgDone =>
                /\ HasMarked(i)
                /\ tasks[i].dir \in preloadedDirs
                /\ Loaded(tasks[i].dir)
    /\ \A d \in preloadedDirs : Loaded(d)
    /\ \A g \in Goroutines :
          (gor[g].pc \in {"get", "end"} /\ gor[g].ret # <<>>) =>
              /\ gor[g].ret[1] \in DOMAIN tasks
              /\ tasks[gor[g].ret[1]].dir = gor[g].dir

\* a call made once a handle of the directory has been released returns nil
\* at once and starts nothing
C20_FurtherCall ==
    \A g \in Goroutines :
        (/\ gor[g].pc = "pre1"
         /\ gor'[g].pc # "pre1"
         /\ \E i \in wgDone : tasks[i].dir = gor[g].dir)
        => /\ gor'[g].pc = AfterPreload(g)
           /\ gor'[g].ret = <<>>
           /\ tasks' = tasks
           /\ preloadingDirs' = preloadingDirs

\* C20: a directory is marked complete, and its handle released, only after
\* the readers spawned for it have finished: once the handle can be waited
\* on, every readable image of the directory is in the cache under its
\* absolute path, and a further PreloadDirectory call for the directory starts
\* no task and returns no handle.
C20_CompletionHandle == []C20_CompleteAfterReaders /\ [][C20_FurtherCall]_vars

\* the second goroutine holds a released handle, and the rendering thread's
\* later call for the same directory came back with nil and met the cache
C20_Witness ==
    /\ gor["other"].pc = "end"
    /\ gor["other"].ret # <<>>
    /\ gor["other"].ret[1] \in wgDone
    /\ Len(tasks) = 1
    /\ ReadableImages(gor["other"].dir) # {}
    /\ gor["render"].dir = gor["other"].dir
    /\ gor["render"].ret = <<>>
    /\ hits # {}

----------------------------------------------------------------------------
(* Claims about raw HTML regions *)

\* C21: whatever the base directory and the flags, an anchor href or an image
\* src in a raw HTML region is resolved to the value the same destination has
\* as a markdown link or image.
C21_RawHTMLSameAsMarkdown ==
    result # <<>> =>
       /\ result[1].by = "rawImage" =>
             result[1].value = processImagePath(call.path, call.r.baseDir,
                                                call.r.selfContained, sep)
       /\ result[1].by = "rawAnchor" =>
             result[1].value = processLinkPath(call.path, call.r.baseDir, call.r.archiveMode,
                                               call.r.archiveRootDir, sep)

\* the same for the destinations without a quote character
C21_SameWithoutQuotes ==
    (result # <<>> /\ ~Contains(call.path, Quotes)) => C21_RawHTMLSameAsMarkdown

\* C22: target="_blank" is appended to an emitted link exactly when the
\* resolved destination is neither javascript: nor an anchor; a raw HTML
\* anchor that already has a target attribute gets no second one.
C22_NewContextMarker ==
    result # <<>> =>
       /\ result[1].by = "processLinkPath" =>
             (result[1].marker <=> OpensNewContext(result[1].value))
       /\ result[1].by = "rawAnchor" =>
             IF result[1].targetAt = "none"
             THEN result[1].marker <=> OpensNewContext(result[1].value)
             ELSE ~result[1].marker

\* the same for the raw HTML anchors whose target attribute follows the href
C22_MarkerUnlessTargetBefore ==
    (result # <<>> /\ result[1].by = "rawAnchor" /\ result[1].targetAt = "before")
       \/ C22_NewContextMarker

----------------------------------------------------------------------------
(* Claims about the pages map *)

\* the pages map as the graph alone determines it
ExpectedPages ==
    [k \in {graph.Nodes[p].RelativePath : p \in NodePaths} |->
        EncodePage(compressData(convertPage(
            CHOOSE p \in NodePaths : graph.Nodes[p].RelativePath = k)))]

\* C23: after a successful ConvertToArchive the pages map has an entry for
\* every non-root node under the node's root-relative key, and the map is the
\* same whatever the order in which the nodes were processed.
C23_PagesIndependentOfOrder ==
    archPc = "written" =>
        /\ \A p \in NodePaths \ {graph.Root} :
              /\ graph.Nodes[p].RelativePath \in DOMAIN Bundle.pages
              /\ PageOf(Bundle.pages[graph.Nodes[p].RelativePath]) = convertPage(p)
        /\ Bundle.pages = ExpectedPages

\* a bundle written from a graph with two nodes of the same depth, which the
\* loop takes in either order
C23_Witness ==
    /\ archPc = "written"
    /\ \E p, q \in NodePaths \ {graph.Root} :
          /\ p # q
          /\ graph.Nodes[p].Depth = graph.Nodes[q].Depth
          /\ PageKeys(p) # PageKeys(q)

----------------------------------------------------------------------------
(* Claims about a failed write *)

\* C24: when writing the destination file fails, the caller gets an error and
\* no partially written file remains at the destination.
C24_NoPartialOutput ==
    archPc = "writeFailed" => outFile = <<>>

\* a write that could not open the destination leaves nothing behind
C24_NothingWhenNotOpened ==
    [][archPc' = "writeFailed" /\ outFile' = outFile => outFile' = <<>>]_vars

----------------------------------------------------------------------------
(* The page payload: compressData and base64 in converter.go, decompressPage
   in navigation.js, on bytes *)

\* the longest rendered page tried, in bytes
MaxHtmlLen == 3

\* the bytes pages are made of: "A", the two bytes of e-acute (C3 A9), the
\* three bytes of the euro sign (E2 82 AC), and FF, which no UTF-8 text holds
ByteValues == {65, 195, 169, 226, 130, 172, 255}

RECURSIVE BytesUpTo(_)
BytesUpTo(n) ==
    IF n = 0 THEN {<<>>}
    ELSE BytesUpTo(n - 1) \cup
         {Append(b, x) : b \in {y \in BytesUpTo(n - 1) : Len(y) = n - 1}, x \in ByteValues}

RECURSIVE SumBytes(_)
SumBytes(bytes) == IF bytes = <<>> THEN 0 ELSE Head(bytes) + SumBytes(Tail(bytes))

\* the gzip member: magic and method, the deflate body, then the check value
\* and the length of the data (one byte each here, for CRC-32 and ISIZE)
GzipHeader == <<31, 139, 8>>

\* converter.go 188-201: writer.Write(data), writer.Close(), buf.Bytes()
GzipBytes(bytes) == GzipHeader \o bytes \o <<SumBytes(bytes) % 256, Len(bytes) % 256>>

\* the 65th letter of the base64 alphabet, "="
Pad == 64

\* base64.StdEncoding.EncodeToString: three bytes to four letters, the last
\* group padded; a letter is written as its index in the alphabet
RECURSIVE StdEncoding(_)
StdEncoding(bytes) ==
    CASE Len(bytes) = 0 -> <<>>
      [] Len(bytes) = 1 ->
            <<bytes[1] \div 4, (bytes[1] % 4) * 16, Pad, Pad>>
      [] Len(bytes) = 2 ->
            <<bytes[1] \div 4, (bytes[1] % 4) * 16 + (bytes[2] \div 16),
              (bytes[2] % 16) * 4, Pad>>
      [] OTHER ->
            <<bytes[1] \div 4, (bytes[1] % 4) * 16 + (bytes[2] \div 16),
              (bytes[2] % 16) * 4 + (bytes[3] \div 64), bytes[3] % 64>>
            \o StdEncoding(SubSeq(bytes, 4, Len(bytes)))

\* a decoder that takes the padding for letters
RECURSIVE atobPaddingAsLetters(_)
atobPaddingAsLetters(letters) ==
    IF Len(letters) < 4 THEN <<>>
    ELSE <<(letters[1] * 4 + (letters[2] \div 16)) % 256,
           ((letters[2] % 16) * 16 + (letters[3] \div 4)) % 256,
           ((letters[3] % 4) * 64 + letters[4]) % 256>>
         \o atobPaddingAsLetters(SubSeq(letters, 5, Len(letters)))

\* navigation.js 88-94: atob(compressed), then charCodeAt into a Uint8Array
RECURSIVE atob(_)
atob(letters) ==
    IF Len(letters) < 4 THEN <<>>
    ELSE LET b1 == letters[1] * 4 + (letters[2] \div 16)
             b2 == (letters[2] % 16) * 16 + (letters[3] \div 4)
             b3 == (letters[3] % 4) * 64 + letters[4]
         IN  (CASE letters[3] = Pad -> <<b1>>
                [] letters[4] = Pad -> <<b1, b2>>
                [] OTHER            -> <<b1, b2, b3>>)
             \o atob(SubSeq(letters, 5, Len(letters)))

\* pako: the number of bytes a sequence starts with its first byte
Utf8Len(q) ==
    IF q = 254 THEN 1
    ELSE IF q >= 252 THEN 6
    ELSE IF q >= 248 THEN 5
    ELSE IF q >= 240 THEN 4
    ELSE IF q >= 224 THEN 3
    ELSE IF q >= 192 THEN 2
    ELSE 1

\* pako buf2string: the following bytes are joined six bits at a time
RECURSIVE JoinRest(_, _, _)
JoinRest(c, cLen, rest) ==
    IF cLen > 1 /\ rest # <<>>
    THEN JoinRest(c * 64 + (Head(rest) % 64), cLen - 1, Tail(rest))
    ELSE [c |-> c, cLen |-> cLen, rest |-> rest]

\* the replacement character
Replacement == 65533

\* pako buf2string: bytes to UTF-16 code units
RECURSIVE buf2string(_)
buf2string(buf) ==
    IF buf = <<>> THEN <<>>
    ELSE LET c == Head(buf)
             cLen == Utf8Len(c)
         IN  IF c < 128 THEN <<c>> \o buf2string(Tail(buf))
             ELSE IF cLen > 4
             THEN <<Replacement>> \o
                  buf2string(SubSeq(buf, cLen + 1, Len(buf)))
             ELSE LET masked == c % (IF cLen = 2 THEN 32 ELSE IF cLen = 3 THEN 16 ELSE 8)
                      j == JoinRest(masked, cLen, Tail(buf))
                  IN  (IF j.cLen > 1 THEN <<Replacement>>
                       ELSE IF j.c < 65536 THEN <<j.c>>
                       ELSE <<55296 + (((j.c - 65536) \div 1024) % 1024),
                              56320 + ((j.c - 65536) % 1024)>>)
                      \o buf2string(j.rest)

\* navigation.js 97-102: pako.inflate(uint8Array, { to: 'string' }); a stream
\* that is not a gzip member, or whose check value or length is wrong, throws,
\* and decompressPage returns null
inflate(bytes) ==
    IF /\ Len(bytes) >= Len(GzipHeader) + 2
       /\ SubSeq(bytes, 1, Len(GzipHeader)) = GzipHeader
       /\ LET payload == SubSeq(bytes, Len(GzipHeader) + 1, Len(bytes) - 2)
          IN  /\ bytes[Len(bytes) - 1] = SumBytes(payload) % 256
              /\ bytes[Len(bytes)] = Len(payload) % 256
    THEN [null |-> FALSE,
          string |-> buf2string(SubSeq(bytes, Len(GzipHeader) + 1, Len(bytes) - 2))]
    ELSE [null |-> TRUE, string |-> <<>>]

InitCodec ==
    /\ sep \in Separators
    /\ IdleGraph
    /\ IdleCache
    /\ IdleArchive
    /\ IdleNav
    /\ call \in {[html |-> b] : b \in BytesUpTo(MaxHtmlLen)}
    /\ result = <<>>

\* converter.go 57: compressed, err := compressData(htmlContent)
CodecCompress ==
    /\ result = <<>>
    /\ result' = <<GzipBytes(call.html)>>
    /\ UNCHANGED <<sep, call, graphVars, cacheVars, archVars, navVars>>

\* converter.go 63: encoded := base64.StdEncoding.EncodeToString(compressed)
CodecEncode ==
    /\ Len(result) = 1
    /\ result' = Append(result, StdEncoding(result[1]))
    /\ UNCHANGED <<sep, call, graphVars, cacheVars, archVars, navVars>>

\* navigation.js 88-94
CodecDecode ==
    /\ Len(result) = 2
    /\ result' = Append(result, atob(result[2]))
    /\ UNCHANGED <<sep, call, graphVars, cacheVars, archVars, navVars>>

\* navigation.js 97-98
CodecInflate ==
    /\ Len(result) = 3
    /\ result' = Append(result, inflate(result[3]))
    /\ UNCHANGED <<sep, call, graphVars, cacheVars, archVars, navVars>>

NextCodec == CodecCompress \/ CodecEncode \/ CodecDecode \/ CodecInflate

SpecCodec == InitCodec /\ [][NextCodec]_vars

\* the bytes of a string of code units, as UTF-8
RECURSIVE Utf8Bytes(_)
Utf8Bytes(units) ==
    IF units = <<>> THEN <<>>
    ELSE LET u == Head(units)
         IN  (IF u < 128 THEN <<u>>
              ELSE IF u < 2048 THEN <<192 + (u \div 64), 128 + (u % 64)>>
              ELSE <<224 + (u \div 4096), 128 + ((u \div 64) % 64), 128 + (u % 64)>>)
             \o Utf8Bytes(Tail(units))

IsContinuation(b) == b >= 128 /\ b <= 191

\* well-formed UTF-8 of one, two and three bytes
RECURSIVE ValidUtf8(_)
ValidUtf8(bytes) ==
    IF bytes = <<>> THEN TRUE
    ELSE LET c == Head(bytes)
         IN  CASE c < 128 -> ValidUtf8(Tail(bytes))
               [] c >= 194 /\ c <= 223 ->
                     /\ Len(bytes) >= 2
                     /\ IsContinuation(bytes[2])
                     /\ ValidUtf8(SubSeq(bytes, 3, Len(bytes)))
               [] c >= 224 /\ c <= 239 ->
                     /\ Len(bytes) >= 3
                     /\ IsContinuation(bytes[2])
                     /\ IsContinuation(bytes[3])
                     /\ (c = 224 => bytes[2] >= 160)
                     /\ (c = 237 => bytes[2] <= 159)
                     /\ ValidUtf8(SubSeq(bytes, 4, Len(bytes)))
               [] OTHER -> FALSE

\* the page decompressPage returns is the page that was compressed
RoundTrips ==
    /\ ~result[4].null
    /\ Utf8Bytes(result[4].string) = call.html

\* C25 as stated: for every rendered page, decompressing the decoded payload
\* yields exactly the rendered HTML bytes.
C25_RoundTripEveryPage ==
    Len(result) = 4 => RoundTrips

\* C25: for every rendered page that is well-formed UTF-8, decoding the
\* payload gives back the compressed bytes, and decompressing them yields
\* exactly the rendered HTML; for any page the decoded bytes are the
\* compressed bytes.
C25_RoundTripOfText ==
    /\ Len(result) >= 3 => result[3] = result[1]
    /\ Len(result) = 4 /\ ValidUtf8(call.html) => RoundTrips

\* a page holding a two-byte and a one-byte character has gone round
C25_Witness ==
    /\ Len(result) = 4
    /\ call.html = <<195, 169, 65>>
    /\ result[4].string = <<233, 65>>

----------------------------------------------------------------------------
(* injectBeforeClosingTag, converter.go 204-212 *)

\* the longest root page tried, in pieces of text
MaxPageLen == 5

\* the pieces root pages are made of; "<" and "/body>" together spell the tag
PagePieces == {"a", "<", "/body>"}

ClosingBodyTag == <<"<", "/body>">>

\* the resources generateArchiveResources returns
ArchiveResources == <<"<script>", "window.mdviewArchive", "</script>">>

RECURSIVE PagesUpTo(_)
PagesUpTo(n) ==
    IF n = 0 THEN {<<>>}
    ELSE PagesUpTo(n - 1) \cup
         {Append(h, x) : h \in {y \in PagesUpTo(n - 1) : Len(y) = n - 1}, x \in PagePieces}

\* the places (counted from 0) where sub occurs in s
Occurrences(s, sub) ==
    {i \in 0..(Len(s) - Len(sub)) : SubSeq(s, i + 1, i + Len(sub)) = sub}

\* strings.Index: the first occurrence, or -1
Index(s, sub) ==
    IF Occurrences(s, sub) = {} THEN -1
    ELSE CHOOSE i \in Occurrences(s, sub) : \A j \in Occurrences(s, sub) : i <= j

\* strings.LastIndex: the last occurrence, or -1
LastIndex(s, sub) ==
    IF Occurrences(s, sub) = {} THEN -1
    ELSE CHOOSE i \in Occurrences(s, sub) : \A j \in Occurrences(s, sub) : i >= j

\* lines 204-212
injectBeforeClosingTag(html, closingTag, content) ==
    LET index == LastIndex(html, closingTag)
    IN  IF index = -1
        THEN html \o content
        ELSE SubSeq(html, 1, index) \o content \o SubSeq(html, index + 1, Len(html))

InitInject ==
    /\ sep \in Separators
    /\ IdleGraph
    /\ IdleCache
    /\ IdleArchive
    /\ IdleNav
    /\ call \in {[rootHTML |-> h] : h \in PagesUpTo(MaxPageLen)}
    /\ result = <<>>

\* converter.go 79: finalHTML := injectBeforeClosingTag(rootHTML, "</body>", archiveResources)
InjectResources ==
    /\ result = <<>>
    /\ result' = <<injectBeforeClosingTag(call.rootHTML, ClosingBodyTag, ArchiveResources)>>
    /\ UNCHANGED <<sep, call, graphVars, cacheVars, archVars, navVars>>

NextInject == InjectResources

SpecInject == InitInject /\ [][NextInject]_vars

\* text holds the tag somewhere
HasTag(text) == \E i \in 1..(Len(text) - 1) : SubSeq(text, i, i + 1) = ClosingBodyTag

\* finalHTML is before, the resources, after; before and after make up the page
SplitsAround(finalHTML, before, after) ==
    /\ before \o after = call.rootHTML
    /\ finalHTML = before \o ArchiveResources \o after

\* C26: the archive resources are inserted immediately before the last
\* occurrence of the closing body tag of the root page, the text of the page is
\* kept in order around them, and a page without the tag gets them at its end.
C26_InjectedBeforeLastBodyTag ==
    result # <<>> =>
        \E k \in 0..Len(call.rootHTML) :
            LET before == SubSeq(call.rootHTML, 1, k)
                after  == SubSeq(call.rootHTML, k + 1, Len(call.rootHTML))
            IN  /\ SplitsAround(result[1], before, after)
                /\ IF HasTag(call.rootHTML)
                   THEN /\ Len(after) >= 2
                        /\ SubSeq(after, 1, 2) = ClosingBodyTag
                        /\ ~HasTag(Tail(after))
                   ELSE after = <<>>

\* a page with two closing body tags and text between and after them
C26_Witness ==
    /\ result # <<>>
    /\ call.rootHTML = <<"<", "/body>", "<", "/body>", "a">>
    /\ result[1] = <<"<", "/body>">> \o ArchiveResources \o <<"<", "/body>", "a">>

\* a page without the tag
C26_WitnessNoTag ==
    /\ result # <<>>
    /\ call.rootHTML = <<"a", "<", "a">>
    /\ result[1] = <<"a", "<", "a">> \o ArchiveResources

----------------------------------------------------------------------------
(* Claims about the resolver and the link scanner *)

IsNavigationReference(href) == HasPrefix(href, "javascript:mdviewLoadPage('")

\* the resolver of a page of an archive, with both directories set
ArchiveResolver ==
    /\ call.r.archiveMode
    /\ call.r.archiveRootDir # <<>>
    /\ call.r.baseDir # <<>>

\* for the destination of the call, the resolver emits a reference exactly
\* when the scanner accepts it, and for the same absolute path
ResolverAgreesWithScanner ==
    LET emitted == processLinkPath(call.path, call.r.baseDir, call.r.archiveMode,
                                   call.r.archiveRootDir, sep)
        accepted == processLink(call.path, call.r.baseDir, sep)
    IN  /\ IsNavigationReference(emitted) <=> accepted # <<>>
        /\ accepted # <<>> => ResolverTarget(call.path, call.r.baseDir, sep) = accepted

\* C27: in archive mode the resolver emits a navigation reference exactly when
\* the scanner accepts the same destination as a local markdown link, and both
\* resolve it to the same absolute path.
C27_ResolverMatchesScanner ==
    /\ result # <<>>
    /\ result[1].by \in {"processLink", "processLinkPath"}
    /\ ArchiveResolver
    => ResolverAgreesWithScanner

\* the two agree on destinations without fragment or query that do not begin
\* with "#", "mailto:" or "tel:"
C27_AgreeOnPlainDestinations ==
    /\ result # <<>>
    /\ result[1].by \in {"processLink", "processLinkPath"}
    /\ ArchiveResolver
    /\ StripFragmentAndQuery(call.path) = call.path
    /\ ~HasPrefix(call.path, "mailto:") /\ ~HasPrefix(call.path, "tel:")
    => ResolverAgreesWithScanner

----------------------------------------------------------------------------
(* Claims about the keys navigation references name *)

\* C28: every navigation reference emitted in the root page or in a bundled
\* page names a key that is present in the pages map, also when discovery
\* skipped targets or was cut short by maxPages.
C28_ReferencesNameBundledPages ==
    archPc = "written" =>
        \A q \in NodePaths : \A t \in LinkTargets(q) :
            ResolverKey(q, t) \in DOMAIN Bundle.pages

\* the same on a host whose separator is "/", where the keys of the packager
\* and of the resolver are the same strings
C28_OnForwardSlashHost ==
    sep = "/" => C28_ReferencesNameBundledPages

\* on such a host the references to documents of the graph name their pages
C28_BundledTargetsHaveKeys ==
    archPc = "written" /\ sep = "/" =>
        \A q \in NodePaths : \A t \in LinkTargets(q) \cap NodePaths :
            ResolverKey(q, t) \in DOMAIN Bundle.pages

----------------------------------------------------------------------------
(* Claims about the overlay and about clicks that fail *)

\* C29: after any sequence of link clicks, back-link clicks and closes the
\* overlay is hidden only when the history stack is empty and the current page
\* is the root, and the recorded current page is the page displayed.
C29_HiddenOnlyAtRoot ==
    /\ ~overlayVisible =>
          /\ mdviewHistory = <<>>
          /\ KeyOfReference(mdviewCurrentPage) = BundleKey(RootDoc, sep)
    /\ CurrentIsDisplayed

\* closing the overlay over a stack of one entry leads back to the root
C29_CloseFromFirstPage ==
    [][HandleClose /\ Len(mdviewHistory) = 1 /\ mdviewHistory[1] = mdviewArchive.root =>
          /\ mdviewHistory' = <<>>
          /\ mdviewCurrentPage' = mdviewArchive.root
          /\ IsDisplayed(mdviewCurrentPage', overlayVisible', overlayBody')]_vars

\* the overlay was closed over a stack of two entries
C29_ClosedOverDeeperStack ==
    navLast = "close" /\ ~overlayVisible /\ mdviewHistory # <<>>

\* the page a click on href looks up is not in the bundle, or its payload is
\* damaged
LookupFails(href) ==
    LET key == LookupKey(mdviewCurrentPage, href, mdviewArchive.root)
    IN  \/ key \notin DOMAIN mdviewArchive.pages
        \/ mdviewArchive.pages[key] = DamagedPayload

\* C30: a click on a markdown link whose key is not in the bundle, or whose
\* payload fails to decompress, changes neither the history stack, nor the
\* current page, nor the overlay's visibility and content.
C30_FailedClickChangesNothing ==
    [][\A href \in ClickableHrefs :
          (HandleClick(href) /\ isLocalMarkdownLink(href) /\ LookupFails(href)) =>
              UNCHANGED <<mdviewHistory, mdviewCurrentPage, overlayVisible, overlayBody>>]_vars

\* a click on a link to a damaged page, made with a page in the overlay
C30_Witness ==
    /\ navLast = "undecodable"
    /\ overlayVisible
    /\ mdviewHistory # <<>>

\* a click on a link to a page the bundle does not have
C30_WitnessNotFound ==
    /\ navLast = "notfound"
    /\ overlayVisible
    /\ mdviewHistory # <<>>

====
